---- MODULE Spec2Model ----
(***************************************************************************)
(* The clinic backend: doctor availability resolution, the save of a       *)
(* doctor's weekly availability, the migration runner, and sessions and    *)
(* admin accounts.                                                         *)
(*                                                                         *)
(* The schedule store is the five PostgreSQL tables the resolver reads     *)
(* (doctors_identities, doctor_clinic_assignments, doctor_availability,    *)
(* doctor_availability_rules, special_schedules); the operations are the   *)
(* Express route handlers of src/index.js that write and read them, and    *)
(* the earlier revision of GET /api/clinic-day-schedule kept in            *)
(* src/unnamed/part_003.  Each of the other parts has its own variables    *)
(* and its own specification (SpecReplace, SpecOverlap, SpecMigrations,    *)
(* SpecAuth) and leaves the variables of the others as Init set them.      *)
(*                                                                         *)
(* A JavaScript Date is the number of the day within the modelled year     *)
(* (1 = 1 January); a 'yyyy-MM-dd' string and a SQL DATE are the triple    *)
(* <<year, month, day>>.  The server's time zone is taken to be at or east *)
(* of UTC, so that new Date('yyyy-MM-dd') falls on the named local day.    *)
(* A time of day is its hour.  Each handler of src/index.js is one atomic  *)
(* step, and the requests are served one at a time: a handler runs once    *)
(* the response of the previous request has been delivered.                *)
(***************************************************************************)
EXTENDS Integers, Sequences, FiniteSets, TLC

----------------------------------------------------------------------------
(* Bounds of the model *)

\* ids the sequences of the three schedule tables may hand out in total
MaxRows == 2

Doctors == {1, 2}
Clinics == {1, 2}
\* day_of_week values submitted by the clients (2 = Tuesday)
DaysOfWeek == {2}
\* start_time / end_time pairs submitted for weekly rows and for rules
WeeklyWindows == {<<9, 12>>, <<13, 17>>}
RuleWindows == {<<14, 18>>}
\* weeks_of_month arrays submitted for rules
WeeksOfMonthInputs == {{1}, {2, 4}}
\* the calendar year of every date of the model: 2025, whose 1 January is a
\* Wednesday (weekday 3)
Calendar == [year |-> 2025, firstWeekday |-> 3,
             monthLen |-> <<31, 28, 31, 30, 31, 30, 31, 31, 30, 31, 30, 31>>]
Year == Calendar.year
MonthLen == Calendar.monthLen
\* schedule_date values submitted for special schedules
SpecialDates == {<<Year, 1, 7>>, <<Year, 1, 14>>}
\* clinicIds arrays submitted to PUT /api/doctors/:id
ClinicIdsInputs == {{1, 2}, {1}}
\* date parameters of GET /api/clinic-day-schedule
QueryDates ==
    {<<Year, 1, 7>>, <<Year, 1, 8>>, <<Year, 1, 14>>, <<Year, 1, 28>>,
     <<Year, 4, 1>>, <<Year, 4, 8>>}
\* the days on which GET /api/doctor-work-schedule is served (new Date())
Today == {<<Year, 1, 3>>, <<Year, 7, 31>>}

\* the admin accounts (admin_id)
Admins == {1, 2}
\* the readings of the clock, in hours
Hours == {0, 12, 24, 36}

\* SQL NULL in a time column (no hour of the day)
NULL == -1

----------------------------------------------------------------------------
(* Dates: date-fns and the Date constructor *)

\* days of the year before the first of each month
DaysBefore ==
    LET RECURSIVE sum(_)
        sum(k) == IF k = 0 THEN 0 ELSE MonthLen[k] + sum(k - 1)
    IN [m \in 1..12 |-> sum(m - 1)]

DaysInYear == DaysBefore[12] + MonthLen[12]

\* the month of each day of the year
MonthOfDay ==
    [day \in 1..DaysInYear |->
        CHOOSE m \in 1..12 : DaysBefore[m] < day /\ day <= DaysBefore[m] + MonthLen[m]]

\* new Date('yyyy-MM-dd'), and node-postgres reading a DATE column
NewDate(str) == DaysBefore[str[2]] + str[3]

getMonth(day) == MonthOfDay[day]

getDate(day) == day - DaysBefore[getMonth(day)]

\* 0 = Sunday
getDay(day) == (day - 1 + Calendar.firstWeekday) % 7

startOfMonth(day) == day - getDate(day) + 1

\* format(day, 'yyyy-MM-dd')
format(day) == <<Year, getMonth(day), getDate(day)>>

\* date-fns getWeekOfMonth with the default weekStartsOn = 0: the row of the
\* month's calendar grid (weeks starting on Sunday) the day is in
getWeekOfMonth(day) ==
    LET currentDayOfMonth == getDate(day)
        startWeekDay == getDay(startOfMonth(day))
        d0 == 0 - startWeekDay
        lastDayOfFirstWeek == IF d0 <= 0 THEN d0 + 7 ELSE d0
        remainingDaysAfterFirstWeek == currentDayOfMonth - lastDayOfFirstWeek
        \* Math.ceil(remainingDaysAfterFirstWeek / 7)
        ceil == IF remainingDaysAfterFirstWeek >= 0
                THEN (remainingDaysAfterFirstWeek + 6) \div 7
                ELSE 0 - ((0 - remainingDaysAfterFirstWeek) \div 7)
    IN ceil + 1

\* date-fns addMonths: same day of the month, clamped to the month's end
addMonths(day, amount) ==
    LET m == getMonth(day) + amount
        d == IF getDate(day) <= MonthLen[m] THEN getDate(day) ELSE MonthLen[m]
    IN DaysBefore[m] + d

\* eachDayOfInterval running one day past the end of the interval
eachDayOfInterval_pastEnd(start, end) == [i \in 1..(end - start + 2) |-> start + i - 1]

\* date-fns eachDayOfInterval({start, end})
eachDayOfInterval(start, end) == [i \in 1..(end - start + 1) |-> start + i - 1]

----------------------------------------------------------------------------
(* The schedule store *)

VARIABLES
    doctors_identities,          \* doctor_id -> status
    doctor_clinic_assignments,   \* set of <<doctor_id, clinic_id>>
    doctor_availability,         \* WeeklyAvailability rows
    doctor_availability_rules,   \* RecurringRule rows
    special_schedules,           \* SpecialSchedule rows
    da_seq, dr_seq, ss_seq,      \* last value of each table's id sequence
    resp,                        \* the response of the last request served
    client,                      \* the pool client checked out by a request that
                                 \* saves a full weekly availability (part_002)
    applied,                     \* migration files whose SQL the database has run
    runner,                      \* the migration runner process (part_008)
    runs,                        \* how often the runner has been started
    admins,                      \* admin_id -> status
    user_sessions,               \* rows {token, user_id, user_type, expires_at}
    token_seq,                   \* session tokens generated so far
    clock,                       \* NOW() and Date.now(), in hours
    logins,                      \* POST /api/auth/login requests past the
                                 \* password check, before the session INSERT
    deletes,                     \* DELETE /api/admins/:id requests past the
                                 \* status UPDATE, before the session DELETE
    treatments,                  \* treatment_id of the rows of treatments
    examination_findings,        \* rows {finding_id, doctor_id, chief_complaint}
    treatment_plans,             \* rows {plan_id, doctor_id, status}
    finding_seq, plan_seq,       \* last value of each table's id sequence
    owned,                       \* requests past their ownership check, before
                                 \* their UPDATE or DELETE
    appointments,                \* appointment_id -> row
    visits,                      \* rows of visits
    visit_seq,                   \* last value of visits_visit_id_seq
    visits_schema,               \* whether visits has a unique appointment_id
    txs,                         \* pool client -> the PATCH /api/appointments/:id
                                 \* transaction it runs
    billing,                     \* rows of billing
    billing_seq,                 \* last value of billing_billing_id_seq
    generating,                  \* POST /api/billing/generate requests past the
                                 \* existing-bill check, before the INSERT
    paying                       \* PUT /api/billing/:id/payment requests past
                                 \* the bill check, before the UPDATE

vars == <<doctors_identities, doctor_clinic_assignments, doctor_availability,
          doctor_availability_rules, special_schedules, da_seq, dr_seq, ss_seq,
          resp, client, applied, runner, runs,
          admins, user_sessions, token_seq, clock, logins, deletes,
          treatments, examination_findings, treatment_plans, finding_seq, plan_seq,
          owned, appointments, visits, visit_seq, visits_schema, txs,
          billing, billing_seq, generating, paying>>

store == <<doctors_identities, doctor_clinic_assignments, doctor_availability,
           doctor_availability_rules, special_schedules, da_seq, dr_seq, ss_seq>>

\* the state of the migration runner
migrationVars == <<applied, runner, runs>>

\* the state of the authentication and admin routes
authVars == <<admins, user_sessions, token_seq, clock, logins, deletes>>

\* the clinical records: treatments, examinations and treatment plans
recordVars == <<treatments, examination_findings, treatment_plans, finding_seq,
                plan_seq, owned>>

\* appointments, visits and the check-in transactions
checkInVars == <<appointments, visits, visit_seq, visits_schema, txs>>

\* bills and the billing requests in flight
billingVars == <<billing, billing_seq, generating, paying>>

\* the state of the treatment, visit and billing routes of src/index.js
careVars == <<recordVars, checkInVars, billingVars>>

\* the state no schedule handler of src/index.js touches
outsideIndex == <<client, migrationVars, authVars, careVars>>

\* a text column that is NULL, a text field the body of a request leaves out
NullText == "NULL"

\* the clients of the pool that serve PATCH /api/appointments/:id
PoolClients == {1, 2}

\* the visits table as migration 001 creates it, without a column
\* appointment_id, and the visits table with a unique appointment_id, which
\* INSERT ... ON CONFLICT (appointment_id) needs
Schema001 == "001_treatment_system.sql"
AppointmentIdUnique == "UNIQUE (appointment_id)"

\* no client is checked out; a pool client that runs no transaction
Released == [state |-> "released"]

\* no runner process exists
NotStarted == [pc |-> "none"]

\* no request is being served
NoResponse == [route |-> "none", status |-> 0]

Idle == resp.status = 0

\* A treatment of the starter data of migration 003 exists; the appointments
\* have been booked by POST /api/appointments, which stores patient_id || null;
\* no examination, treatment plan, visit or bill exists and no request of
\* these routes is in flight.
InitCare ==
    /\ treatments = {1}
    /\ examination_findings = {}
    /\ treatment_plans = {}
    /\ finding_seq = 0
    /\ plan_seq = 0
    /\ owned = {}
    /\ appointments =
           (1 :> [patient_id |-> 1, clinic_id |-> 1, doctor_id |-> 1,
                  status |-> "confirmed", purpose |-> NullText, check_in_time |-> NULL])
           @@ (2 :> [patient_id |-> NULL, clinic_id |-> 2, doctor_id |-> 2,
                     status |-> "confirmed", purpose |-> NullText, check_in_time |-> NULL])
    /\ visits = {}
    /\ visit_seq = 0
    /\ txs = [c \in PoolClients |-> Released]
    /\ billing = {}
    /\ billing_seq = 0
    /\ generating = {}
    /\ paying = {}

\* Every doctor has been created by POST /api/doctors with the default status
\* and all clinics; the schedule tables are empty.
Init ==
    /\ doctors_identities = [d \in Doctors |-> "active"]
    /\ doctor_clinic_assignments = Doctors \X Clinics
    /\ doctor_availability = {}
    /\ doctor_availability_rules = {}
    /\ special_schedules = {}
    /\ da_seq = 0
    /\ dr_seq = 0
    /\ ss_seq = 0
    /\ resp = NoResponse
    /\ client = [state |-> "released"]
    /\ applied = {}
    /\ runner = NotStarted
    /\ runs = 0
    /\ admins = [a \in Admins |-> "active"]
    /\ user_sessions = {}
    /\ token_seq = 0
    /\ clock = 0
    /\ logins = {}
    /\ deletes = {}
    /\ InitCare
    /\ visits_schema = AppointmentIdUnique

----------------------------------------------------------------------------
(* Write handlers *)

\* PUT /api/doctors/:id : sets the status and replaces the clinic assignments
PutDoctors(id, clinicIds, status) ==
    LET currentClinicIds == {a[2] : a \in {x \in doctor_clinic_assignments : x[1] = id}}
        clinicsToAdd == clinicIds \ currentClinicIds
        clinicsToRemove == currentClinicIds \ clinicIds
    IN /\ Idle
       /\ doctors_identities' = [doctors_identities EXCEPT ![id] = status]
       /\ doctor_clinic_assignments' =
              (doctor_clinic_assignments \ {<<id, c>> : c \in clinicsToRemove})
                  \cup {<<id, c>> : c \in clinicsToAdd}
       /\ resp' = [route |-> "PUT /api/doctors", status |-> 200]
       /\ UNCHANGED <<doctor_availability, doctor_availability_rules,
                      special_schedules, da_seq, dr_seq, ss_seq,
                      outsideIndex>>

\* POST /api/doctor-availability/:doctor_id : inserts availability[0] (the
\* first element of the submitted array; sequences are 1-based)
PostDoctorAvailability(doctor_id, availability) ==
    LET slot == availability[1]
    IN
    /\ Idle
    /\ da_seq + dr_seq + ss_seq < MaxRows
    /\ da_seq' = da_seq + 1
    /\ doctor_availability' = doctor_availability \cup
           {[id |-> da_seq + 1, doctor_id |-> doctor_id, clinic_id |-> slot.clinic_id,
             day_of_week |-> slot.day_of_week, start_time |-> slot.start_time,
             end_time |-> slot.end_time]}
    /\ resp' = [route |-> "POST /api/doctor-availability", status |-> 201,
                doctor_id |-> doctor_id, availability |-> availability]
    /\ UNCHANGED <<doctors_identities, doctor_clinic_assignments,
                   doctor_availability_rules, special_schedules, dr_seq, ss_seq,
                   outsideIndex>>

\* POST /api/doctor-rules/:doctor_id
PostDoctorRules(doctor_id, clinic_id, day_of_week, weeks_of_month, start_time, end_time) ==
    /\ Idle
    /\ da_seq + dr_seq + ss_seq < MaxRows
    /\ dr_seq' = dr_seq + 1
    /\ doctor_availability_rules' = doctor_availability_rules \cup
           {[id |-> dr_seq + 1, doctor_id |-> doctor_id, clinic_id |-> clinic_id,
             day_of_week |-> day_of_week, weeks_of_month |-> weeks_of_month,
             start_time |-> start_time, end_time |-> end_time]}
    /\ resp' = [route |-> "POST /api/doctor-rules", status |-> 201]
    /\ UNCHANGED <<doctors_identities, doctor_clinic_assignments,
                   doctor_availability, special_schedules, da_seq, ss_seq,
                   outsideIndex>>

\* DELETE /api/doctor-rules/:rule_id
DeleteDoctorRules(rule_id) ==
    /\ Idle
    /\ doctor_availability_rules' = {r \in doctor_availability_rules : r.id # rule_id}
    /\ resp' = [route |-> "DELETE /api/doctor-rules", status |-> 200]
    /\ UNCHANGED <<doctors_identities, doctor_clinic_assignments,
                   doctor_availability, special_schedules, da_seq, dr_seq, ss_seq,
                   outsideIndex>>

\* POST /api/special-schedules : INSERT ... ON CONFLICT (doctor_id, schedule_date)
\* DO UPDATE SET is_available.  start_time and end_time are not written; the
\* id sequence advances whether the row is inserted or updated.
PostSpecialSchedules(doctor_id, clinic_id, schedule_date, is_available) ==
    LET conflict == {s \in special_schedules :
                        s.doctor_id = doctor_id /\ s.schedule_date = schedule_date}
    IN /\ Idle
       /\ da_seq + dr_seq + ss_seq < MaxRows
       /\ ss_seq' = ss_seq + 1
       /\ special_schedules' =
              IF conflict = {}
              THEN special_schedules \cup
                       {[id |-> ss_seq + 1, doctor_id |-> doctor_id,
                         clinic_id |-> clinic_id, schedule_date |-> schedule_date,
                         start_time |-> NULL, end_time |-> NULL,
                         is_available |-> is_available]}
              ELSE (special_schedules \ conflict) \cup
                       {[s EXCEPT !.is_available = is_available] : s \in conflict}
       /\ resp' = [route |-> "POST /api/special-schedules", status |-> 201,
                   doctor_id |-> doctor_id, clinic_id |-> clinic_id,
                   schedule_date |-> schedule_date, is_available |-> is_available]
       /\ UNCHANGED <<doctors_identities, doctor_clinic_assignments,
                      doctor_availability, doctor_availability_rules, da_seq, dr_seq,
                      outsideIndex>>

\* DELETE /api/special-schedules/:id
DeleteSpecialSchedules(id) ==
    /\ Idle
    /\ special_schedules' = {s \in special_schedules : s.id # id}
    /\ resp' = [route |-> "DELETE /api/special-schedules", status |-> 200]
    /\ UNCHANGED <<doctors_identities, doctor_clinic_assignments,
                   doctor_availability, doctor_availability_rules, da_seq, dr_seq, ss_seq,
                   outsideIndex>>

----------------------------------------------------------------------------
(* Helpers: result sets, arrays and Maps *)

\* the orders in which the store may return the rows of a result set
Orderings(S) ==
    {f \in [1..Cardinality(S) -> S] : \A i, j \in DOMAIN f : i # j => f[i] # f[j]}

\* the elements of an array
Elements(arr) == {arr[i] : i \in DOMAIN arr}

\* Array.prototype.find, the callback given as the set of the elements it
\* accepts: <<the first accepted element>>, or <<>> for undefined
Find(arr, accepted) ==
    LET hits == {i \in DOMAIN arr : arr[i] \in accepted}
    IN IF hits = {} THEN <<>>
       ELSE <<arr[CHOOSE i \in hits : \A j \in hits : i <= j]>>

Found(x) == Len(x) = 1

\* Map.prototype.set on a Map kept as the sequence of its <<key, value>>
\* entries in insertion order: an existing key keeps its place
MapSet(map, key, value) ==
    IF \E i \in DOMAIN map : map[i][1] = key
    THEN [i \in DOMAIN map |-> IF map[i][1] = key THEN <<key, value>> ELSE map[i]]
    ELSE Append(map, <<key, value>>)

\* Array.from(map.values())
MapValues(map) == [i \in DOMAIN map |-> map[i][2]]

\* Array.prototype.sort with the comparator new Date(a.date) - new Date(b.date)
SortByDate(arr) ==
    LET insert(sorted, x) ==
            LET k == Cardinality({i \in DOMAIN sorted :
                                     NewDate(sorted[i].date) <= NewDate(x.date)})
            IN [i \in 1..(Len(sorted) + 1) |->
                   IF i <= k THEN sorted[i]
                   ELSE IF i = k + 1 THEN x ELSE sorted[i - 1]]
        RECURSIVE sort(_)
        sort(n) == IF n = 0 THEN <<>> ELSE insert(sort(n - 1), arr[n])
    IN sort(Len(arr))

----------------------------------------------------------------------------
(* GET /api/clinic-day-schedule, src/index.js *)

\* working_doctors with the weekly rows of every weekday
working_doctors_anyWeekday(da, dr, clinic_id, dayOfWeek, weekOfMonth) ==
    {[doctor_id |-> a.doctor_id, start_time |-> a.start_time, end_time |-> a.end_time] :
        a \in {x \in da : x.clinic_id = clinic_id}}
    \cup
    {[doctor_id |-> r.doctor_id, start_time |-> r.start_time, end_time |-> r.end_time] :
        r \in {x \in dr : /\ x.clinic_id = clinic_id
                          /\ x.day_of_week = dayOfWeek
                          /\ weekOfMonth \in x.weeks_of_month}}

\* the CTE working_doctors: weekly rows UNION matching rule rows
working_doctors(da, dr, clinic_id, dayOfWeek, weekOfMonth) ==
    {[doctor_id |-> a.doctor_id, start_time |-> a.start_time, end_time |-> a.end_time] :
        a \in {x \in da : x.clinic_id = clinic_id /\ x.day_of_week = dayOfWeek}}
    \cup
    {[doctor_id |-> r.doctor_id, start_time |-> r.start_time, end_time |-> r.end_time] :
        r \in {x \in dr : /\ x.clinic_id = clinic_id
                          /\ x.day_of_week = dayOfWeek
                          /\ weekOfMonth \in x.weeks_of_month}}

\* unavailable_doctors with the days off of every date
unavailable_doctors_anyDate(ss, date) ==
    {s.doctor_id : s \in {x \in ss : x.is_available = FALSE}}

\* the subquery: doctors with an is_available = false row on the date
unavailable_doctors(ss, date) ==
    {s.doctor_id : s \in {x \in ss : x.schedule_date = date /\ x.is_available = FALSE}}

\* workingDoctorsQuery with the subquery restricted to the queried clinic
workingDoctorsQuery_clinicScoped(di, da, dr, ss, clinic_id, dayOfWeek, weekOfMonth, date) ==
    {[id |-> wd.doctor_id, start_time |-> wd.start_time, end_time |-> wd.end_time] :
        wd \in {x \in working_doctors(da, dr, clinic_id, dayOfWeek, weekOfMonth) :
                   /\ x.doctor_id \in DOMAIN di
                   /\ di[x.doctor_id] = "active"
                   /\ x.doctor_id \notin
                          unavailable_doctors({s \in ss : s.clinic_id = clinic_id}, date)}}

\* workingDoctorsQuery over the tables di, da, dr, ss
workingDoctorsQuery(di, da, dr, ss, clinic_id, dayOfWeek, weekOfMonth, date) ==
    {[id |-> wd.doctor_id, start_time |-> wd.start_time, end_time |-> wd.end_time] :
        wd \in {x \in working_doctors(da, dr, clinic_id, dayOfWeek, weekOfMonth) :
                   /\ x.doctor_id \in DOMAIN di
                   /\ di[x.doctor_id] = "active"
                   /\ x.doctor_id \notin unavailable_doctors(ss, date)}}

\* the doctors array the handler returns for (clinic_id, date) over given tables
resolveDay(di, da, dr, ss, clinic_id, date) ==
    LET targetDate == NewDate(date)
        dayOfWeek == getDay(targetDate)
        weekOfMonth == getWeekOfMonth(targetDate)
    IN workingDoctorsQuery(di, da, dr, ss, clinic_id, dayOfWeek, weekOfMonth, date)

GetClinicDaySchedule(clinic_id, date) ==
    /\ Idle
    /\ resp' = [route |-> "GET /api/clinic-day-schedule", rev |-> "index.js",
                status |-> 200, clinic_id |-> clinic_id, date |-> date,
                doctors |-> resolveDay(doctors_identities, doctor_availability,
                                       doctor_availability_rules, special_schedules,
                                       clinic_id, date),
                all_doctors_in_clinic |->
                    {a[1] : a \in {x \in doctor_clinic_assignments : x[2] = clinic_id}}]
    /\ UNCHANGED <<store, outsideIndex>>

----------------------------------------------------------------------------
(* GET /api/clinic-day-schedule, the Map-merge revision of src/unnamed/part_003 *)

\* the two base queries: rows of active doctors for the clinic and weekday
weeklyDoctorsRows(di, da, clinic_id, dayOfWeek) ==
    {[id |-> a.doctor_id, start_time |-> a.start_time, end_time |-> a.end_time] :
        a \in {x \in da : /\ x.clinic_id = clinic_id
                          /\ x.day_of_week = dayOfWeek
                          /\ di[x.doctor_id] = "active"}}

ruleDoctorsRows(di, dr, clinic_id, dayOfWeek, weekOfMonth) ==
    {[id |-> r.doctor_id, start_time |-> r.start_time, end_time |-> r.end_time] :
        r \in {x \in dr : /\ x.clinic_id = clinic_id
                          /\ x.day_of_week = dayOfWeek
                          /\ weekOfMonth \in x.weeks_of_month
                          /\ di[x.doctor_id] = "active"}}

\* [...weeklyDoctors, ...ruleDoctors].forEach(doc => workingDoctorsMap.set(doc.id, doc))
workingDoctorsMap(weeklyDoctors, ruleDoctors) ==
    LET all == weeklyDoctors \o ruleDoctors
        RECURSIVE build(_)
        build(n) == IF n = 0 THEN <<>> ELSE MapSet(build(n - 1), all[n].id, all[n])
    IN build(Len(all))

\* workingDoctors.filter(doc => { special = find(...); return !special || special.is_available })
finalWorkingDoctors(workingDoctors, specialSchedules) ==
    LET keep(doc) ==
            LET special == Find(specialSchedules,
                                {s \in Elements(specialSchedules) : s.doctor_id = doc.id})
            IN ~Found(special) \/ special[1].is_available
    IN {workingDoctors[i] : i \in {j \in DOMAIN workingDoctors : keep(workingDoctors[j])}}

\* the doctors arrays this revision can return over given tables
resolveDayMap(di, da, dr, ss, clinic_id, date) ==
    LET targetDate == NewDate(date)
        dayOfWeek == getDay(targetDate)
        weekOfMonth == getWeekOfMonth(targetDate)
    IN {finalWorkingDoctors(MapValues(workingDoctorsMap(w, r)), sp) :
           w \in Orderings(weeklyDoctorsRows(di, da, clinic_id, dayOfWeek)),
           r \in Orderings(ruleDoctorsRows(di, dr, clinic_id, dayOfWeek, weekOfMonth)),
           sp \in Orderings({x \in ss : x.schedule_date = date})}

GetClinicDayScheduleMap(clinic_id, date) ==
    /\ Idle
    /\ \E doctors \in resolveDayMap(doctors_identities, doctor_availability,
                                    doctor_availability_rules, special_schedules,
                                    clinic_id, date) :
          resp' = [route |-> "GET /api/clinic-day-schedule", rev |-> "part_003",
                   status |-> 200, clinic_id |-> clinic_id, date |-> date,
                   doctors |-> doctors,
                   all_doctors_in_clinic |->
                       {a[1] : a \in {x \in doctor_clinic_assignments : x[2] = clinic_id}}]
    /\ UNCHANGED <<store, outsideIndex>>

----------------------------------------------------------------------------
(* GET /api/doctor-work-schedule/:doctor_id, src/index.js *)

\* the callback of eachDayOfInterval(...).forEach for one day: "throw" when
\* clinicInfo is undefined, else whether the doctor works and the schedule
daySchedule(day, doctorRecords, availability, rules, specialSchedules) ==
    LET dayOfWeek == getDay(day)
        dateString == format(day)
        weekOfMonth == getWeekOfMonth(day)
        weeklyAvail == Find(availability,
                            {a \in Elements(availability) : a.day_of_week = dayOfWeek})
        rule == Find(rules,
                     {r \in Elements(rules) : /\ r.day_of_week = dayOfWeek
                                              /\ weekOfMonth \in r.weeks_of_month})
        special == Find(specialSchedules,
                        {s \in Elements(specialSchedules) :
                            format(NewDate(s.schedule_date)) = dateString})
        schedule(row) == [date |-> dateString, startTime |-> row.start_time,
                          endTime |-> row.end_time, clinicId |-> row.clinic_id]
    IN IF \/ Found(weeklyAvail) /\ weeklyAvail[1].clinic_id \notin doctorRecords
          \/ Found(rule) /\ rule[1].clinic_id \notin doctorRecords
       THEN [kind |-> "throw"]
       ELSE IF (~Found(weeklyAvail) /\ ~Found(rule))
               \/ (Found(special) /\ ~special[1].is_available)
       THEN [kind |-> "off"]
       ELSE [kind |-> "working",
             entry |-> IF Found(rule) THEN schedule(rule[1])
                       ELSE schedule(weeklyAvail[1])]

\* the forEach over the days: whether a callback threw, and scheduleMap
scheduleMapOf(days, doctorRecords, availability, rules, specialSchedules) ==
    LET of(i) == daySchedule(days[i], doctorRecords, availability, rules, specialSchedules)
        RECURSIVE build(_)
        build(n) ==
            IF n = 0 THEN <<>>
            ELSE LET d == of(n)
                 IN IF d.kind = "working"
                    THEN MapSet(build(n - 1), d.entry.date, d.entry)
                    ELSE build(n - 1)
    IN IF \E i \in DOMAIN days : of(i).kind = "throw"
       THEN [threw |-> TRUE, map |-> <<>>]
       ELSE [threw |-> FALSE, map |-> build(Len(days))]

GetDoctorWorkSchedule(doctor_id, now) ==
    LET doctorRecords ==
            {a[2] : a \in {x \in doctor_clinic_assignments : x[1] = doctor_id}}
        startDate == NewDate(now)
        endDate == addMonths(startDate, 2)
        days == eachDayOfInterval(startDate, endDate)
    IN /\ Idle
       /\ \E availability \in
                Orderings({a \in doctor_availability : a.doctor_id = doctor_id}),
             rules \in
                Orderings({r \in doctor_availability_rules : r.doctor_id = doctor_id}),
             specialSchedules \in
                Orderings({s \in special_schedules : s.doctor_id = doctor_id}) :
             LET run == scheduleMapOf(days, doctorRecords, availability,
                                      rules, specialSchedules)
                 scheduleMap == run.map
             IN resp' =
                    IF run.threw
                    THEN [route |-> "GET /api/doctor-work-schedule", status |-> 500,
                          doctor_id |-> doctor_id, startDate |-> format(startDate),
                          endDate |-> format(endDate), workingDays |-> <<>>]
                    ELSE [route |-> "GET /api/doctor-work-schedule", status |-> 200,
                          doctor_id |-> doctor_id, startDate |-> format(startDate),
                          endDate |-> format(endDate),
                          workingDays |-> SortByDate(MapValues(scheduleMap))]
       /\ UNCHANGED <<store, outsideIndex>>

----------------------------------------------------------------------------
(* The specification *)

\* the response has reached the client; the next request can be served
ResponseDelivered ==
    /\ ~Idle
    /\ resp' = NoResponse
    /\ UNCHANGED <<store, outsideIndex>>

Next ==
    \/ \E id \in Doctors, clinicIds \in ClinicIdsInputs, status \in {"active", "inactive"} :
          PutDoctors(id, clinicIds, status)
    \/ \E doctor_id \in Doctors, clinic_id \in Clinics, day_of_week \in DaysOfWeek,
          w \in WeeklyWindows :
          PostDoctorAvailability(doctor_id,
              <<[clinic_id |-> clinic_id, day_of_week |-> day_of_week,
                 start_time |-> w[1], end_time |-> w[2]]>>)
    \/ \E doctor_id \in Doctors, clinic_id \in Clinics, day_of_week \in DaysOfWeek,
          weeks_of_month \in WeeksOfMonthInputs, w \in RuleWindows :
          PostDoctorRules(doctor_id, clinic_id, day_of_week, weeks_of_month, w[1], w[2])
    \/ \E rule_id \in 1..MaxRows : DeleteDoctorRules(rule_id)
    \/ \E doctor_id \in Doctors, clinic_id \in Clinics, schedule_date \in SpecialDates,
          is_available \in BOOLEAN :
          PostSpecialSchedules(doctor_id, clinic_id, schedule_date, is_available)
    \/ \E id \in 1..MaxRows : DeleteSpecialSchedules(id)
    \/ \E clinic_id \in Clinics, date \in QueryDates : GetClinicDaySchedule(clinic_id, date)
    \/ \E clinic_id \in Clinics, date \in QueryDates : GetClinicDayScheduleMap(clinic_id, date)
    \/ \E doctor_id \in Doctors, now \in Today : GetDoctorWorkSchedule(doctor_id, now)
    \/ ResponseDelivered

Spec == Init /\ [][Next]_vars

----------------------------------------------------------------------------
(* Vocabulary of the properties *)

IsDay == resp.route = "GET /api/clinic-day-schedule"

IsRange == resp.route = "GET /api/doctor-work-schedule"

Weekday(date) == getDay(NewDate(date))

\* the 1-based occurrence of the date's weekday within its month
OrdinalOfWeekday(date) == ((date[3] - 1) \div 7) + 1

Window(row) == <<row.start_time, row.end_time>>

\* the entries of the doctor in the doctors array of a day response
EntriesOf(doctor) == {e \in resp.doctors : e.id = doctor}

\* the rows of the store that match a clinic and date for a doctor
WeeklyMatching(doctor, clinic, date) ==
    {a \in doctor_availability : /\ a.doctor_id = doctor
                                 /\ a.clinic_id = clinic
                                 /\ a.day_of_week = Weekday(date)}

RulesMatching(doctor, clinic, date) ==
    {r \in doctor_availability_rules :
        /\ r.doctor_id = doctor
        /\ r.clinic_id = clinic
        /\ r.day_of_week = Weekday(date)
        /\ getWeekOfMonth(NewDate(date)) \in r.weeks_of_month}

SpecialsOn(doctor, date) ==
    {s \in special_schedules : s.doctor_id = doctor /\ s.schedule_date = date}

\* the doctors arrays the revision that answered can return over the special
\* schedules ss, the rest of the store being as it is
DayResults(ss) ==
    IF resp.rev = "index.js"
    THEN {resolveDay(doctors_identities, doctor_availability,
                     doctor_availability_rules, ss, resp.clinic_id, resp.date)}
    ELSE resolveDayMap(doctors_identities, doctor_availability,
                       doctor_availability_rules, ss, resp.clinic_id, resp.date)

----------------------------------------------------------------------------
(* Properties *)

\* C1 (as claimed): in a clinic-day-schedule response, a doctor with both a
\* matching weekly row and a matching rule row is returned with a rule's window
\* only, and a doctor with only matching weekly rows with a weekly window.
C1_RulePrecedence ==
    IsDay =>
        \A d \in Doctors :
            LET weekly == WeeklyMatching(d, resp.clinic_id, resp.date)
                rules == RulesMatching(d, resp.clinic_id, resp.date)
            IN /\ (weekly # {} /\ rules # {}) =>
                      \A e \in EntriesOf(d) : \E r \in rules : Window(e) = Window(r)
               /\ (weekly # {} /\ rules = {}) =>
                      \A e \in EntriesOf(d) : \E a \in weekly : Window(e) = Window(a)

\* C2 (as claimed): the doctors array of a clinic-day-schedule response holds
\* at most one entry per doctor.
C2_OneEntryPerDoctor ==
    IsDay => \A e1, e2 \in resp.doctors : e1.id = e2.id => e1 = e2

\* C3: a doctor with an is_available = false special schedule on the queried
\* date is in no clinic-day-schedule response for that date and has no entry
\* for that date in a doctor-work-schedule response; special schedules of other
\* dates do not change a clinic-day-schedule response.
C3_NegativeOverride ==
    /\ IsDay =>
          /\ \A s \in special_schedules :
                (s.schedule_date = resp.date /\ ~s.is_available)
                    => EntriesOf(s.doctor_id) = {}
          /\ resp.doctors \in
                DayResults({s \in special_schedules : s.schedule_date = resp.date})
    /\ (IsRange /\ resp.status = 200) =>
          \A s \in special_schedules :
              (s.doctor_id = resp.doctor_id /\ ~s.is_available) =>
                  \A i \in DOMAIN resp.workingDays :
                      resp.workingDays[i].date # s.schedule_date

\* C3 witness: an active doctor with a matching weekly row and a day off on the
\* queried date is left out of the response.
C3_Witness ==
    /\ IsDay
    /\ \E s \in special_schedules :
          /\ s.schedule_date = resp.date
          /\ ~s.is_available
          /\ doctors_identities[s.doctor_id] = "active"
          /\ WeeklyMatching(s.doctor_id, resp.clinic_id, resp.date) # {}
          /\ EntriesOf(s.doctor_id) = {}

\* C4 (as claimed): an active doctor with no weekly row and no matching rule
\* row, but with an is_available = true special schedule of the queried clinic
\* and date, is returned with the special schedule's start_time and end_time.
C4_AdHocAddition ==
    IsDay =>
        \A s \in special_schedules :
            ( /\ s.schedule_date = resp.date
              /\ s.clinic_id = resp.clinic_id
              /\ s.is_available
              /\ doctors_identities[s.doctor_id] = "active"
              /\ {a \in doctor_availability : a.doctor_id = s.doctor_id} = {}
              /\ RulesMatching(s.doctor_id, resp.clinic_id, resp.date) = {} )
            => \E e \in EntriesOf(s.doctor_id) : Window(e) = Window(s)

\* C5 (as claimed): a doctor in the merged weekly/rule set who has an
\* is_available = true special schedule of the queried clinic and date is
\* returned with the special schedule's start_time and end_time.
C5_PositiveOverrideWindow ==
    IsDay =>
        \A s \in special_schedules :
            ( /\ s.schedule_date = resp.date
              /\ s.clinic_id = resp.clinic_id
              /\ s.is_available )
            => \A e \in EntriesOf(s.doctor_id) : Window(e) = Window(s)

\* the doctor's schedule data is exactly one weekly row
OnlyWeeklyRow(d, a) ==
    /\ {x \in doctor_availability : x.doctor_id = d} = {a}
    /\ {r \in doctor_availability_rules : r.doctor_id = d} = {}
    /\ {s \in special_schedules : s.doctor_id = d} = {}

\* what a clinic-day-schedule response holds for a doctor whose only schedule
\* data is the weekly row a
BaselineFor(d, a) ==
    /\ (resp.clinic_id = a.clinic_id /\ Weekday(resp.date) = a.day_of_week)
           => EntriesOf(d) = {[id |-> d, start_time |-> a.start_time,
                               end_time |-> a.end_time]}
    /\ Weekday(resp.date) # a.day_of_week => EntriesOf(d) = {}

\* C6 (as claimed): a doctor whose only schedule data is one weekly row is
\* returned with that row's window on every date of the row's weekday, and is
\* not returned on a date of another weekday.
C6_BaselineAnyDoctor ==
    IsDay =>
        \A d \in Doctors : \A a \in doctor_availability :
            OnlyWeeklyRow(d, a) => BaselineFor(d, a)

\* C6 (amended): the same for a doctor whose status is 'active'.
C6_BaselineActiveDoctor ==
    IsDay =>
        \A d \in Doctors : \A a \in doctor_availability :
            (OnlyWeeklyRow(d, a) /\ doctors_identities[d] = "active")
                => BaselineFor(d, a)

\* C6 witness: such a doctor is returned on a date of the row's weekday.
C6_Witness ==
    /\ IsDay
    /\ \E d \in Doctors : \E a \in doctor_availability :
          /\ OnlyWeeklyRow(d, a)
          /\ doctors_identities[d] = "active"
          /\ resp.clinic_id = a.clinic_id
          /\ Weekday(resp.date) = a.day_of_week
          /\ EntriesOf(d) # {}

\* C7 (as claimed): a rule row is a candidate for a date exactly when its
\* day_of_week is the date's weekday and the ordinal occurrence of that weekday
\* within the month is in weeks_of_month.  Observed on an active doctor with
\* no weekly row and no day off: the rule's window is returned for the rule's
\* clinic exactly then.
C7_OrdinalWeekOfMonth ==
    IsDay =>
        \A r \in doctor_availability_rules :
            ( /\ r.clinic_id = resp.clinic_id
              /\ doctors_identities[r.doctor_id] = "active"
              /\ {a \in doctor_availability : a.doctor_id = r.doctor_id} = {}
              /\ SpecialsOn(r.doctor_id, resp.date) = {} )
            => ( (\E e \in EntriesOf(r.doctor_id) : Window(e) = Window(r))
                 <=> ( /\ r.day_of_week = Weekday(resp.date)
                       /\ OrdinalOfWeekday(resp.date) \in r.weeks_of_month ) )

\* C8 (as claimed): a special schedule naming another clinic than the queried
\* one does not change the response: the response is what it would be without
\* the special schedules of other clinics.
C8_ClinicScoped ==
    IsDay =>
        resp.doctors \in
            DayResults({s \in special_schedules : s.clinic_id = resp.clinic_id})

\* C8 (amended): special schedules are scoped to the doctor, not to the clinic:
\* an is_available = false row for (doctor, date) removes the doctor from the
\* response of every clinic for that date, and the response is the same
\* whichever clinic each special schedule names.
C8_DoctorScoped ==
    IsDay =>
        /\ \A s \in special_schedules :
              (s.schedule_date = resp.date /\ ~s.is_available)
                  => \A e \in resp.doctors : e.id # s.doctor_id
        /\ \A c \in Clinics :
              resp.doctors \in
                  DayResults({[s EXCEPT !.clinic_id = c] : s \in special_schedules})

\* C8 witness: a day off naming one clinic removes an active doctor with a
\* matching weekly row from the response of another clinic.
C8_Witness ==
    /\ IsDay
    /\ \E s \in special_schedules :
          /\ s.schedule_date = resp.date
          /\ ~s.is_available
          /\ s.clinic_id # resp.clinic_id
          /\ doctors_identities[s.doctor_id] = "active"
          /\ WeeklyMatching(s.doctor_id, resp.clinic_id, resp.date) # {}
          /\ EntriesOf(s.doctor_id) = {}

\* C9 (as claimed): a doctor-work-schedule response has an entry for a date of
\* the range exactly when the clinic-day-schedule of one of the doctor's
\* assigned clinics returns the doctor for that date, and the entry's clinic
\* and window are those of such a clinic-day-schedule entry.
C9_RangeAgreesWithDay ==
    IsRange =>
        LET d == resp.doctor_id
            assigned == {a[2] : a \in {x \in doctor_clinic_assignments : x[1] = d}}
            dayEntries(c, date) ==
                {x \in resolveDay(doctors_identities, doctor_availability,
                                  doctor_availability_rules, special_schedules,
                                  c, date) : x.id = d}
        IN \A day \in NewDate(resp.startDate)..NewDate(resp.endDate) :
              LET date == format(day)
                  entries == {i \in DOMAIN resp.workingDays :
                                 resp.workingDays[i].date = date}
              IN /\ (entries # {}) <=> (\E c \in assigned : dayEntries(c, date) # {})
                 /\ \A i \in entries :
                       LET e == resp.workingDays[i]
                       IN /\ e.clinicId \in assigned
                          /\ \E x \in dayEntries(e.clinicId, date) :
                                Window(x) = <<e.startTime, e.endTime>>

\* C10: every entry of a doctor-work-schedule response has a date within
\* [startDate, endDate], the dates are strictly ascending (so no date occurs
\* twice), and there are no more entries than days in the range.
C10_RangeBounding ==
    IsRange =>
        LET w == resp.workingDays
            lo == NewDate(resp.startDate)
            hi == NewDate(resp.endDate)
        IN /\ \A i \in DOMAIN w : lo <= NewDate(w[i].date) /\ NewDate(w[i].date) <= hi
           /\ \A i, j \in DOMAIN w : i < j => NewDate(w[i].date) < NewDate(w[j].date)
           /\ Len(w) <= hi - lo + 1

\* C10 witness: a response with several working days, the last of them on the
\* last day of the range.
C10_Witness ==
    /\ IsRange
    /\ resp.status = 200
    /\ Len(resp.workingDays) >= 2
    /\ resp.workingDays[Len(resp.workingDays)].date = resp.endDate

\* C11 (as claimed): two clinic-day-schedule calls for the same clinic and
\* date with no write between them return the same set of entries, whatever
\* the order in which the store returns the rows: over the store as it is, the
\* revision that answered has one possible doctors array, the one returned.
C11_ResolveDayDeterministic ==
    IsDay => DayResults(special_schedules) = {resp.doctors}

----------------------------------------------------------------------------
(* POST /api/doctor-availability/:doctor_id, the revision of                *)
(* src/unnamed/part_002 that saves a doctor's full weekly availability in   *)
(* one transaction on a client checked out of the pool.  The rows of this   *)
(* revision have no clinic_id.  One such request is in flight at a time;    *)
(* reads are served by other connections between its statements and, under  *)
(* PostgreSQL's READ COMMITTED, see the committed rows only.                *)

\* ids the doctor_availability sequence may hand out to this revision
MaxInserts == 3

\* availability arrays submitted to this revision: {day_of_week, start_time,
\* end_time} objects, a missing time being NULL
AvailabilityInputs ==
    {<<>>,
     <<[day_of_week |-> 2, start_time |-> 9, end_time |-> 12]>>,
     <<[day_of_week |-> 2, start_time |-> 9, end_time |-> 12],
       [day_of_week |-> 3, start_time |-> 13, end_time |-> 17]>>,
     <<[day_of_week |-> 3, start_time |-> 13, end_time |-> NULL],
       [day_of_week |-> 4, start_time |-> 9, end_time |-> 12]>>}

\* slot.start_time && slot.end_time
HasTimes(slot) == slot.start_time # NULL /\ slot.end_time # NULL

\* db.pool.connect() and BEGIN
SaveBegin(doctor_id, availability) ==
    /\ client = Released
    /\ da_seq + Len(availability) <= MaxInserts
    /\ client' = [state |-> "begun", doctor_id |-> doctor_id,
                  availability |-> availability, next |-> 1,
                  deleted |-> {}, inserted |-> {}]
    /\ UNCHANGED <<store, resp, migrationVars, authVars, careVars>>

\* DELETE with the rows written directly to the table, outside the transaction
SaveDelete_autocommit ==
    /\ client.state = "begun"
    /\ doctor_availability' =
           {a \in doctor_availability : a.doctor_id # client.doctor_id}
    /\ client' = [client EXCEPT !.state = "inserting"]
    /\ UNCHANGED <<doctors_identities, doctor_clinic_assignments,
                   doctor_availability_rules, special_schedules,
                   da_seq, dr_seq, ss_seq, resp, migrationVars, authVars, careVars>>

\* DELETE FROM doctor_availability WHERE doctor_id = $1, inside the transaction
SaveDelete ==
    /\ client.state = "begun"
    /\ client' = [client EXCEPT
                     !.state = "inserting",
                     !.deleted = {a \in doctor_availability :
                                     a.doctor_id = client.doctor_id}]
    /\ UNCHANGED <<store, resp, migrationVars, authVars, careVars>>

\* one turn of the loop over availability: the INSERT of a slot with both
\* times succeeds or throws; a slot without them is skipped
SaveSlot ==
    /\ client.state = "inserting"
    /\ client.next <= Len(client.availability)
    /\ LET slot == client.availability[client.next]
       IN IF HasTimes(slot)
          THEN \/ /\ da_seq' = da_seq + 1
                  /\ client' = [client EXCEPT
                                   !.next = @ + 1,
                                   !.inserted = @ \cup
                                       {[id |-> da_seq + 1,
                                         doctor_id |-> client.doctor_id,
                                         day_of_week |-> slot.day_of_week,
                                         start_time |-> slot.start_time,
                                         end_time |-> slot.end_time]}]
               \/ /\ client' = [client EXCEPT !.state = "failed"]
                  /\ UNCHANGED da_seq
          ELSE /\ client' = [client EXCEPT !.next = @ + 1]
               /\ UNCHANGED da_seq
    /\ UNCHANGED <<doctors_identities, doctor_clinic_assignments, doctor_availability,
                   doctor_availability_rules, special_schedules, dr_seq, ss_seq, resp,
                   migrationVars, authVars, careVars>>

\* COMMIT, the 201 response and client.release()
SaveCommit ==
    /\ client.state = "inserting"
    /\ client.next > Len(client.availability)
    /\ doctor_availability' = (doctor_availability \ client.deleted) \cup client.inserted
    /\ resp' = [route |-> "POST /api/doctor-availability", status |-> 201,
                doctor_id |-> client.doctor_id, availability |-> client.availability]
    /\ client' = Released
    /\ UNCHANGED <<doctors_identities, doctor_clinic_assignments,
                   doctor_availability_rules, special_schedules,
                   da_seq, dr_seq, ss_seq, migrationVars, authVars, careVars>>

\* the catch block: ROLLBACK, the 500 response and client.release()
SaveRollback ==
    /\ client.state = "failed"
    /\ resp' = [route |-> "POST /api/doctor-availability", status |-> 500,
                doctor_id |-> client.doctor_id, availability |-> client.availability]
    /\ client' = Released
    /\ UNCHANGED <<store, migrationVars, authVars, careVars>>

\* the rows SELECT day_of_week, start_time, end_time ... WHERE doctor_id = $1
\* returns
AvailabilityRows(doctor_id) ==
    {[day_of_week |-> a.day_of_week, start_time |-> a.start_time,
      end_time |-> a.end_time] :
        a \in {x \in doctor_availability : x.doctor_id = doctor_id}}

\* GET /api/doctor-availability/:doctor_id
GetDoctorAvailability(doctor_id) ==
    /\ resp' = [route |-> "GET /api/doctor-availability", status |-> 200,
                doctor_id |-> doctor_id, rows |-> AvailabilityRows(doctor_id)]
    /\ UNCHANGED <<store, client, migrationVars, authVars, careVars>>

NextReplace ==
    \/ \E doctor_id \in Doctors, availability \in AvailabilityInputs :
          SaveBegin(doctor_id, availability)
    \/ SaveDelete
    \/ SaveSlot
    \/ SaveCommit
    \/ SaveRollback
    \/ \E doctor_id \in Doctors : GetDoctorAvailability(doctor_id)

SpecReplace == Init /\ [][NextReplace]_vars

\* the slots of an availability array that have a start and an end time
ValidSlots(availability) ==
    {availability[i] : i \in {j \in DOMAIN availability : HasTimes(availability[j])}}

\* C12: what a read of a doctor's WeeklyAvailability rows observes changes
\* only when a save request for that doctor commits, and then from the
\* complete old set to the complete new set (the submitted slots that have a
\* start and an end time); between BEGIN and COMMIT, and when an insert fails
\* and the request rolls back, reads keep observing the complete old set.
C12_AtomicReplacement ==
    [][\A d \in Doctors :
          AvailabilityRows(d)' # AvailabilityRows(d) =>
              /\ client.state = "inserting"
              /\ client.doctor_id = d
              /\ client' = Released
              /\ resp'.status = 201
              /\ AvailabilityRows(d)' = ValidSlots(client.availability)]_vars

\* C12 witness: a read served after the DELETE and an INSERT of a save request
\* for the same doctor, before its COMMIT, returns the complete old set.
C12_Witness ==
    /\ resp.route = "GET /api/doctor-availability"
    /\ client.state = "inserting"
    /\ client.doctor_id = resp.doctor_id
    /\ client.deleted # {}
    /\ client.inserted # {}
    /\ resp.rows = {[day_of_week |-> a.day_of_week, start_time |-> a.start_time,
                     end_time |-> a.end_time] : a \in client.deleted}
    /\ resp.rows # ValidSlots(client.availability)

\* a WeeklyAvailability row as the slot that was submitted for it
SlotOf(row) == [f \in DOMAIN row \ {"id", "doctor_id"} |-> row[f]]

\* the doctor's WeeklyAvailability rows, as slots
WeeklySlots(d) == {SlotOf(a) : a \in {x \in doctor_availability : x.doctor_id = d}}

\* C13 (as claimed): a step that answers POST /api/doctor-availability/:doctor_id
\* with 201 leaves the doctor's WeeklyAvailability rows exactly the submitted
\* slots that have a start and an end time, and leaves the rows of the other
\* doctors as they were.
C13_WholesaleSupersede ==
    [][( /\ Idle \/ client.state = "inserting"
         /\ resp'.route = "POST /api/doctor-availability"
         /\ resp'.status = 201 )
       => \A d \in Doctors :
              IF d = resp'.doctor_id
              THEN WeeklySlots(d)' = ValidSlots(resp'.availability)
              ELSE {a \in doctor_availability' : a.doctor_id = d}
                       = {a \in doctor_availability : a.doctor_id = d}]_vars

\* C14 (as claimed): the store holds at most one SpecialSchedule row per
\* (doctor_id, schedule_date), and once POST /api/special-schedules has
\* answered 201 that row has the is_available and the clinic_id of the
\* submission.
C14_UpsertKeepsLatest ==
    /\ \A s1, s2 \in special_schedules :
          (s1.doctor_id = s2.doctor_id /\ s1.schedule_date = s2.schedule_date)
              => s1 = s2
    /\ (resp.route = "POST /api/special-schedules" /\ resp.status = 201) =>
          \A s \in SpecialsOn(resp.doctor_id, resp.schedule_date) :
              /\ s.is_available = resp.is_available
              /\ s.clinic_id = resp.clinic_id

----------------------------------------------------------------------------
(* The resolver over a store that holds two SpecialSchedule rows for one    *)
(* (doctor, date).  POST /api/special-schedules cannot produce such a store *)
(* (C14), so the rows are drawn here as input of the read handlers.         *)

\* a doctor with a weekly row on Tuesdays at clinic 1 and two special
\* schedules on Tuesday 7 January, the row with id 2 written after the row
\* with id 1
InitOverlap ==
    /\ doctors_identities = [d \in Doctors |-> "active"]
    /\ doctor_clinic_assignments = Doctors \X Clinics
    /\ doctor_availability =
           {[id |-> 1, doctor_id |-> 1, clinic_id |-> 1, day_of_week |-> 2,
             start_time |-> 9, end_time |-> 12]}
    /\ doctor_availability_rules = {}
    /\ \E c1, c2 \in Clinics, a1, a2 \in BOOLEAN :
          special_schedules =
              {[id |-> 1, doctor_id |-> 1, clinic_id |-> c1,
                schedule_date |-> <<Year, 1, 7>>, start_time |-> NULL,
                end_time |-> NULL, is_available |-> a1],
               [id |-> 2, doctor_id |-> 1, clinic_id |-> c2,
                schedule_date |-> <<Year, 1, 7>>, start_time |-> NULL,
                end_time |-> NULL, is_available |-> a2]}
    /\ da_seq = 1
    /\ dr_seq = 0
    /\ ss_seq = 2
    /\ resp = NoResponse
    /\ client = Released
    /\ applied = {}
    /\ runner = NotStarted
    /\ runs = 0
    /\ admins = [a \in Admins |-> "active"]
    /\ user_sessions = {}
    /\ token_seq = 0
    /\ clock = 0
    /\ logins = {}
    /\ deletes = {}
    /\ InitCare
    /\ visits_schema = AppointmentIdUnique

NextOverlap ==
    \/ \E clinic_id \in Clinics, date \in QueryDates : GetClinicDaySchedule(clinic_id, date)
    \/ \E clinic_id \in Clinics, date \in QueryDates : GetClinicDayScheduleMap(clinic_id, date)
    \/ \E doctor_id \in Doctors, now \in Today : GetDoctorWorkSchedule(doctor_id, now)
    \/ ResponseDelivered

SpecOverlap == InitOverlap /\ [][NextOverlap]_vars

\* the most recently written row of a set of rows of one table
Latest(S) == CHOOSE s \in S : \A t \in S : t.id <= s.id

\* the special schedules with, for every (doctor, date), only the most
\* recently written row
LatestSpecials ==
    {s \in special_schedules : s = Latest(SpecialsOn(s.doctor_id, s.schedule_date))}

C16_RangeNeverFails ==
    IsRange => resp.status = 200

----------------------------------------------------------------------------
(* The migration runner, migrations/run-migration.js (src/unnamed/part_008) *)

\* how often the runner is started
MaxRuns == 3

\* const migrations = [...], in order
migrations ==
    <<"001_treatment_system.sql", "002_modify_existing_tables.sql",
      "003_insert_starter_data.sql">>

\* what runMigration(filename) can come to: the SQL ran, fs.readFileSync
\* threw, or pool.query threw
Outcomes == {"executed", "read failed", "query failed"}

\* node migrations/run-migration.js: a new process calls runAllMigrations()
StartRunner ==
    /\ runner.pc \in {"none", "exited"}
    /\ runs < MaxRuns
    /\ runs' = runs + 1
    /\ runner' = [pc |-> "loop", index |-> 1, log |-> <<>>,
               successCount |-> 0, failCount |-> 0, exitCode |-> NULL]
    /\ UNCHANGED <<store, resp, client, applied, authVars, careVars>>

\* the loop body going on to the next migration after a failure
RunMigration_noBreak ==
    /\ runner.pc = "loop"
    /\ runner.index <= Len(migrations)
    /\ \E outcome \in Outcomes :
          LET filename == migrations[runner.index]
              success == outcome = "executed"
              line == [filename |-> filename, outcome |-> outcome]
          IN /\ applied' = IF success THEN applied \cup {filename} ELSE applied
             /\ runner' = IF success
                       THEN [runner EXCEPT !.log = Append(@, line),
                                        !.successCount = @ + 1,
                                        !.index = @ + 1]
                       ELSE [runner EXCEPT !.log = Append(@, line),
                                        !.failCount = @ + 1,
                                        !.index = @ + 1]
    /\ UNCHANGED <<store, resp, client, runs, authVars, careVars>>

\* one turn of for (const migration of migrations): runMigration(migration),
\* then successCount++, or failCount++ and break.  The log is what the runner
\* prints for the file.
RunMigration ==
    /\ runner.pc = "loop"
    /\ runner.index <= Len(migrations)
    /\ \E outcome \in Outcomes :
          LET filename == migrations[runner.index]
              success == outcome = "executed"
              line == [filename |-> filename, outcome |-> outcome]
          IN /\ applied' = IF success THEN applied \cup {filename} ELSE applied
             /\ runner' = IF success
                       THEN [runner EXCEPT !.log = Append(@, line),
                                        !.successCount = @ + 1,
                                        !.index = @ + 1]
                       ELSE [runner EXCEPT !.log = Append(@, line),
                                        !.failCount = @ + 1,
                                        !.pc = "summary"]
    /\ UNCHANGED <<store, resp, client, runs, authVars, careVars>>

\* the loop ends after the last migration
LoopDone ==
    /\ runner.pc = "loop"
    /\ runner.index > Len(migrations)
    /\ runner' = [runner EXCEPT !.pc = "summary"]
    /\ UNCHANGED <<store, resp, client, applied, runs, authVars, careVars>>

\* await pool.end(); process.exit(failCount > 0 ? 1 : 0).  When pool.end()
\* rejects, the .catch of runAllMigrations() calls process.exit(1).
Exit ==
    /\ runner.pc = "summary"
    /\ \E ended \in BOOLEAN :
          runner' = [runner EXCEPT
                     !.pc = "exited",
                     !.exitCode = IF ended
                                  THEN (IF runner.failCount > 0 THEN 1 ELSE 0)
                                  ELSE 1]
    /\ UNCHANGED <<store, resp, client, applied, runs, authVars, careVars>>

NextMigrations ==
    \/ StartRunner
    \/ RunMigration
    \/ LoopDone
    \/ Exit

SpecMigrations == Init /\ [][NextMigrations]_vars

\* C17: in every run the migrations are executed in the order 001, 002, 003,
\* each at most once; none is executed after one that failed; a run with no
\* failure executes all three; the process exits with 1 if a migration failed
\* and with 0 only if all three succeeded.
C17_MigrationOrdering ==
    runner.pc # "none" =>
        LET log == runner.log
            failed == {k \in DOMAIN log : log[k].outcome # "executed"}
        IN /\ Len(log) <= Len(migrations)
           /\ \A k \in DOMAIN log : log[k].filename = migrations[k]
           /\ \A k \in failed : k = Len(log)
           /\ (runner.pc \in {"summary", "exited"} /\ failed = {})
                  => Len(log) = Len(migrations)
           /\ runner.pc = "exited" =>
                 /\ runner.exitCode \in {0, 1}
                 /\ failed # {} => runner.exitCode = 1
                 /\ runner.exitCode = 0 =>
                       (failed = {} /\ Len(log) = Len(migrations))

\* C17 witness: a run whose second migration failed has exited with code 1
\* without executing the third.
C17_Witness ==
    /\ runner.pc = "exited"
    /\ Len(runner.log) = 2
    /\ runner.log[1].outcome = "executed"
    /\ runner.log[2].outcome = "query failed"
    /\ runner.exitCode = 1

----------------------------------------------------------------------------
(* Sessions and admin accounts: src/routes/auth.js, src/routes/admins.js    *)
(* and the middleware authenticateAdmin.  The users are the admins; an      *)
(* email stands for the admin it belongs to.  A session token is the number *)
(* of the crypto.randomBytes call that made it, so no token is made twice.  *)
(* The application's Date.now() and the database's NOW() read one clock.    *)
(* POST /login and DELETE /api/admins/:id run in two steps each, so that    *)
(* other requests are served between their statements; every other handler *)
(* decides on one statement and is one step.                                *)

\* session tokens generated
MaxTokens == 2

\* the lifetime of a session in hours: Date.now() + 24 * 60 * 60 * 1000
SessionHours == 24

\* the state the authentication and admin routes leave alone
outsideAuth == <<store, client, migrationVars, careVars>>

\* SELECT * FROM user_sessions WHERE token = $1 AND expires_at > NOW()
sessionResult(token) ==
    {s \in user_sessions : s.token = token /\ s.expires_at > clock}

\* POST /api/auth/login up to the password check: the admin is looked up by
\* email with status 'active' and the password is compared
LoginVerify(admin_id, isValidPassword) ==
    /\ Idle
    /\ admin_id \notin logins
    /\ IF admins[admin_id] = "active" /\ isValidPassword
       THEN /\ token_seq + Cardinality(logins) < MaxTokens
            /\ logins' = logins \cup {admin_id}
            /\ UNCHANGED resp
       ELSE /\ resp' = [route |-> "POST /api/auth/login", status |-> 401,
                        user_id |-> admin_id]
            /\ UNCHANGED logins
    /\ UNCHANGED <<admins, user_sessions, token_seq, clock, deletes, outsideAuth>>

\* POST /api/auth/login from the session token on: the INSERT into
\* user_sessions with expires_at 24 hours ahead, and the response
LoginCreateSession(admin_id) ==
    LET sessionToken == token_seq + 1
        expiresAt == clock + SessionHours
    IN /\ Idle
       /\ admin_id \in logins
       /\ token_seq' = sessionToken
       /\ user_sessions' = user_sessions \cup
              {[token |-> sessionToken, user_id |-> admin_id,
                user_type |-> "admin", expires_at |-> expiresAt]}
       /\ logins' = logins \ {admin_id}
       /\ resp' = [route |-> "POST /api/auth/login", status |-> 200,
                   user_id |-> admin_id, token |-> sessionToken,
                   expiresAt |-> expiresAt]
       /\ UNCHANGED <<admins, clock, deletes, outsideAuth>>

\* logout deleting every session of the token's user
PostLogout_everySession(token) ==
    LET users == {s.user_id : s \in {x \in user_sessions : x.token = token}}
    IN /\ Idle
       /\ user_sessions' = {s \in user_sessions : s.user_id \notin users}
       /\ resp' = [route |-> "POST /api/auth/logout", status |-> 200,
                   token |-> token, rows |-> users]
       /\ UNCHANGED <<admins, token_seq, clock, logins, deletes, outsideAuth>>

\* POST /api/auth/logout: DELETE FROM user_sessions WHERE token = $1
\* RETURNING user_id; rows are the users returned
PostLogout(token) ==
    LET result == {s \in user_sessions : s.token = token}
    IN /\ Idle
       /\ user_sessions' = user_sessions \ result
       /\ resp' = [route |-> "POST /api/auth/logout", status |-> 200,
                   token |-> token, rows |-> {s.user_id : s \in result}]
       /\ UNCHANGED <<admins, token_seq, clock, logins, deletes, outsideAuth>>

\* GET /api/auth/me: the session of the token, then the user of the session
GetMe(token) ==
    /\ Idle
    /\ resp' = IF sessionResult(token) = {}
               THEN [route |-> "GET /api/auth/me", status |-> 401, token |-> token]
               ELSE [route |-> "GET /api/auth/me", status |-> 200, token |-> token,
                     user_id |-> (CHOOSE s \in sessionResult(token) : TRUE).user_id]
    /\ UNCHANGED <<authVars, outsideAuth>>

\* refresh extending the session whether or not it has expired
PostRefresh_expiredToo(token) ==
    LET newExpiresAt == clock + SessionHours
        result == {s \in user_sessions : s.token = token}
    IN /\ Idle
       /\ user_sessions' = (user_sessions \ result) \cup
              {[s EXCEPT !.expires_at = newExpiresAt] : s \in result}
       /\ resp' = IF result = {}
                  THEN [route |-> "POST /api/auth/refresh", status |-> 401,
                        token |-> token]
                  ELSE [route |-> "POST /api/auth/refresh", status |-> 200,
                        token |-> token, expiresAt |-> newExpiresAt]
       /\ UNCHANGED <<admins, token_seq, clock, logins, deletes, outsideAuth>>

\* POST /api/auth/refresh: UPDATE user_sessions SET expires_at = $1
\* WHERE token = $2 AND expires_at > NOW() RETURNING ...
PostRefresh(token) ==
    LET newExpiresAt == clock + SessionHours
        result == sessionResult(token)
    IN /\ Idle
       /\ user_sessions' = (user_sessions \ result) \cup
              {[s EXCEPT !.expires_at = newExpiresAt] : s \in result}
       /\ resp' = IF result = {}
                  THEN [route |-> "POST /api/auth/refresh", status |-> 401,
                        token |-> token]
                  ELSE [route |-> "POST /api/auth/refresh", status |-> 200,
                        token |-> token, expiresAt |-> newExpiresAt]
       /\ UNCHANGED <<admins, token_seq, clock, logins, deletes, outsideAuth>>

\* the middleware authenticateAdmin: 401, or next() with req.user.userId
authenticateAdmin(token) ==
    LET rows == {s \in sessionResult(token) : s.user_type = "admin"}
    IN IF rows = {} THEN [status |-> 401, userId |-> NULL]
       ELSE LET session == CHOOSE s \in rows : TRUE
            IN IF admins[session.user_id] # "active"
               THEN [status |-> 401, userId |-> NULL]
               ELSE [status |-> 200, userId |-> session.user_id]

\* GET /api/admins behind authenticateAdmin
GetAdmins(token) ==
    /\ Idle
    /\ resp' = [route |-> "GET /api/admins",
                status |-> authenticateAdmin(token).status, token |-> token]
    /\ UNCHANGED <<authVars, outsideAuth>>

\* DELETE /api/admins/:id up to the soft delete: authenticateAdmin, the check
\* against deleting oneself, UPDATE admins SET status = 'inactive'
DeleteAdminsDeactivate(token, adminId) ==
    LET user == authenticateAdmin(token)
    IN /\ Idle
       /\ adminId \notin deletes
       /\ IF user.status # 200
          THEN /\ resp' = [route |-> "DELETE /api/admins", status |-> 401,
                           adminId |-> adminId]
               /\ UNCHANGED <<admins, deletes>>
          ELSE IF adminId = user.userId
          THEN /\ resp' = [route |-> "DELETE /api/admins", status |-> 400,
                           adminId |-> adminId]
               /\ UNCHANGED <<admins, deletes>>
          ELSE /\ admins' = [admins EXCEPT ![adminId] = "inactive"]
               /\ deletes' = deletes \cup {adminId}
               /\ UNCHANGED resp
       /\ UNCHANGED <<user_sessions, token_seq, clock, logins, outsideAuth>>

\* DELETE /api/admins/:id from the session invalidation on: DELETE FROM
\* user_sessions WHERE user_id = $1 AND user_type = 'admin', and the response
DeleteAdminsInvalidate(adminId) ==
    /\ Idle
    /\ adminId \in deletes
    /\ user_sessions' = {s \in user_sessions :
                            ~(s.user_id = adminId /\ s.user_type = "admin")}
    /\ deletes' = deletes \ {adminId}
    /\ resp' = [route |-> "DELETE /api/admins", status |-> 200, adminId |-> adminId]
    /\ UNCHANGED <<admins, token_seq, clock, logins, outsideAuth>>

\* POST /api/admins/:id/reactivate behind authenticateAdmin
PostReactivate(token, adminId) ==
    LET user == authenticateAdmin(token)
    IN /\ Idle
       /\ IF user.status # 200
          THEN /\ resp' = [route |-> "POST /api/admins/reactivate", status |-> 401,
                           adminId |-> adminId]
               /\ UNCHANGED admins
          ELSE /\ admins' = [admins EXCEPT ![adminId] = "active"]
               /\ resp' = [route |-> "POST /api/admins/reactivate", status |-> 200,
                           adminId |-> adminId]
       /\ UNCHANGED <<user_sessions, token_seq, clock, logins, deletes, outsideAuth>>

\* time passes
Tick ==
    /\ Idle
    /\ \E later \in Hours : later > clock /\ clock' = later
    /\ UNCHANGED <<admins, user_sessions, token_seq, logins, deletes, resp, outsideAuth>>

NextAuth ==
    \/ \E admin_id \in Admins, isValidPassword \in BOOLEAN :
          LoginVerify(admin_id, isValidPassword)
    \/ \E admin_id \in Admins : LoginCreateSession(admin_id)
    \/ \E token \in 0..token_seq : PostLogout(token)
    \/ \E token \in 0..token_seq : GetMe(token)
    \/ \E token \in 0..token_seq : PostRefresh(token)
    \/ \E token \in 0..token_seq : GetAdmins(token)
    \/ \E token \in 0..token_seq, adminId \in Admins :
          DeleteAdminsDeactivate(token, adminId)
    \/ \E adminId \in Admins : DeleteAdminsInvalidate(adminId)
    \/ \E token \in 0..token_seq, adminId \in Admins : PostReactivate(token, adminId)
    \/ Tick
    \/ ResponseDelivered

SpecAuth == Init /\ [][NextAuth]_vars

\* the session rows of a token
SessionsOf(token) == {s \in user_sessions : s.token = token}

\* a step that answers a request of the route
Answers(route) == Idle /\ resp'.route = route

\* C18: POST /api/auth/logout removes the session of its token and leaves
\* every other session as it was; a token that has been generated and has no
\* session never has one again; GET /api/auth/me and POST /api/auth/refresh
\* answer 401 for a token that has no session.  So every /me and /refresh
\* after a logout of the token answers 401.
C18_LogoutInvalidates ==
    [][/\ Answers("POST /api/auth/logout") =>
             /\ resp'.status = 200
             /\ user_sessions' = {s \in user_sessions : s.token # resp'.token}
       /\ \A token \in 1..token_seq :
             SessionsOf(token) = {} => SessionsOf(token)' = {}
       /\ (Answers("GET /api/auth/me") \/ Answers("POST /api/auth/refresh")) =>
             \A token \in 0..token_seq :
                 (resp'.token = token /\ SessionsOf(token) = {})
                     => resp'.status = 401]_vars

\* C18 witness: a logout has removed one of two sessions of a user.
C18_Witness ==
    /\ resp.route = "POST /api/auth/logout"
    /\ resp.status = 200
    /\ SessionsOf(resp.token) = {}
    /\ \E s \in user_sessions : s.user_id \in resp.rows /\ s.expires_at > clock

\* C19: GET /api/auth/me and POST /api/auth/refresh accept a token only when
\* its session's expires_at is in the future; expires_at of a session changes
\* only by a refresh of a session that has not expired, to 24 hours after the
\* refresh; a session is created for a new token only, expiring 24 hours
\* later; and a session that has expired stays expired.
C19_ExpiryIsFinal ==
    [][/\ ( /\ Answers("GET /api/auth/me") \/ Answers("POST /api/auth/refresh")
            /\ resp'.status = 200 )
          => \E s \in user_sessions : s.token = resp'.token /\ s.expires_at > clock
       /\ \A s \in user_sessions : \A t \in user_sessions' :
             (t.token = s.token /\ t.expires_at # s.expires_at) =>
                 /\ s.expires_at > clock
                 /\ t.expires_at = clock + SessionHours
                 /\ Answers("POST /api/auth/refresh")
                 /\ resp'.token = s.token
                 /\ resp'.status = 200
       /\ \A t \in user_sessions' :
             {s \in user_sessions : s.token = t.token} = {} =>
                 /\ t.token > token_seq
                 /\ t.expires_at = clock + SessionHours
       /\ \A s \in user_sessions :
             s.expires_at <= clock =>
                 \A t \in user_sessions' : t.token = s.token => t.expires_at <= clock'
      ]_vars

\* C19 witness: a refresh of a token whose session has expired is answered 401
\* and the session is still expired.
C19_Witness ==
    /\ resp.route = "POST /api/auth/refresh"
    /\ resp.status = 401
    /\ \E s \in user_sessions : s.token = resp.token /\ s.expires_at <= clock

\* C20 (as claimed): while an admin is inactive and no DELETE /api/admins/:id
\* for that admin is in progress, no token of a session of that admin is
\* accepted by authenticateAdmin, by GET /api/auth/me or by POST
\* /api/auth/refresh.
C20_DeactivationRevokes ==
    \A a \in Admins :
        (admins[a] = "inactive" /\ a \notin deletes) =>
            \A s \in user_sessions :
                s.user_id = a =>
                    /\ authenticateAdmin(s.token).status = 401
                    /\ sessionResult(s.token) = {}

----------------------------------------------------------------------------
(* Authentication and role middleware of src/index.js, and the routes over  *)
(* treatments, examination_findings and treatment_plans.  A request carries *)
(* an Authorization header: none, a token jwt.verify rejects (whatever user *)
(* its payload names), or a token signed with JWT_SECRET whose payload has  *)
(* a user {id, role} or none.  The ids of workers and of doctors come from  *)
(* different tables, so a nurse and a doctor can have the same id.  The     *)
(* handlers that check the owner of a record run in two steps, the SELECT   *)
(* of the owner and the UPDATE or DELETE, and other requests are served     *)
(* between the two.  No row of visit_treatments refers to a treatment.      *)
(* The body of a request is cut down to one column of the record.           *)

\* how many examinations and treatment plans are created, and how many
\* requests wait between their ownership check and their write
MaxFindings == 1
MaxPlans == 1
MaxInFlight == 2

NoHeader == [present |-> FALSE, verifies |-> FALSE, user |-> <<>>]

Forged(user) == [present |-> TRUE, verifies |-> FALSE, user |-> user]

Bearer(user) == [present |-> TRUE, verifies |-> TRUE, user |-> user]

User(id, role) == <<[id |-> id, role |-> role]>>

AuthHeaders ==
    {NoHeader, Forged(User(9, "admin")), Bearer(<<>>), Bearer(User(1, "nurse")),
     Bearer(User(1, "doctor")), Bearer(User(2, "doctor")), Bearer(User(9, "admin"))}

\* doctor_id in the body of the creating requests
DoctorIdInputs == Doctors \cup {NULL}

\* authMiddleware: req.user is the user of the verified payload; status 0
\* stands for next()
authMiddleware(authHeader) ==
    IF ~authHeader.present
    THEN [status |-> 401, user |-> <<>>]
    ELSE IF authHeader.verifies
         THEN [status |-> 0, user |-> authHeader.user]
         ELSE [status |-> 401, user |-> <<>>]

\* checkRole(...allowedRoles): the status it answers, 0 for next()
checkRole(allowedRoles, req) ==
    IF req.user = <<>>
    THEN 401
    ELSE IF req.user[1].role \notin allowedRoles THEN 403 ELSE 0

\* the status answered by the middleware chain authMiddleware,
\* checkRole(...allowedRoles) of a route, 0 when the handler runs
middleware(authHeader, allowedRoles) ==
    LET req == authMiddleware(authHeader)
    IN IF req.status # 0 THEN req.status ELSE checkRole(allowedRoles, req)

\* a middleware has answered: nothing stored changes
Rejected(route, authHeader, id, status) ==
    /\ resp' = [route |-> route, status |-> status, authHeader |-> authHeader,
                id |-> id]
    /\ UNCHANGED <<store, outsideIndex>>

\* the state the record routes leave alone
outsideRecords == <<store, client, migrationVars, authVars, checkInVars, billingVars>>

\* DELETE /api/treatments/:id
DeleteTreatments(authHeader, id) ==
    LET route == "DELETE /api/treatments/:id"
        denied == middleware(authHeader, {"admin"})
    IN /\ Idle
       /\ IF denied # 0
          THEN Rejected(route, authHeader, id, denied)
          ELSE /\ treatments' = treatments \ {id}
               /\ resp' = [route |-> route,
                           status |-> IF id \in treatments THEN 200 ELSE 404,
                           authHeader |-> authHeader, id |-> id]
               /\ UNCHANGED <<examination_findings, treatment_plans, finding_seq,
                              plan_seq, owned, outsideRecords>>

\* POST /api/examination-findings: only authMiddleware guards it, and
\* doctor_id is the one of the body
PostExaminationFindings(authHeader, doctor_id) ==
    LET route == "POST /api/examination-findings"
        req == authMiddleware(authHeader)
    IN /\ Idle
       /\ IF req.status # 0
          THEN Rejected(route, authHeader, NULL, req.status)
          ELSE /\ finding_seq < MaxFindings
               /\ finding_seq' = finding_seq + 1
               /\ examination_findings' = examination_findings \cup
                      {[finding_id |-> finding_seq + 1, doctor_id |-> doctor_id,
                        chief_complaint |-> NullText]}
               /\ resp' = [route |-> route, status |-> 201,
                           authHeader |-> authHeader, id |-> finding_seq + 1]
               /\ UNCHANGED <<treatments, treatment_plans, plan_seq, owned,
                              outsideRecords>>

\* POST /api/treatment-plans.  The route is registered twice; Express runs
\* the first registration, whose handler answers every request, so the second
\* one, with checkRole('doctor', 'admin'), never runs.  Only authMiddleware
\* guards the first; it inserts the plan with the doctor_id of the body in a
\* transaction, and its loop over items throws when the body has no items
PostTreatmentPlans(authHeader, doctor_id, items) ==
    LET route == "POST /api/treatment-plans"
        req == authMiddleware(authHeader)
    IN /\ Idle
       /\ IF req.status # 0
          THEN Rejected(route, authHeader, NULL, req.status)
          ELSE /\ plan_seq < MaxPlans
               /\ plan_seq' = plan_seq + 1
               /\ IF items = NullText
                  THEN /\ resp' = [route |-> route, status |-> 500,
                                   authHeader |-> authHeader, id |-> NULL]
                       /\ UNCHANGED treatment_plans
                  ELSE /\ treatment_plans' = treatment_plans \cup
                              {[plan_id |-> plan_seq + 1, doctor_id |-> doctor_id,
                                status |-> "active"]}
                       /\ resp' = [route |-> route, status |-> 201,
                                   authHeader |-> authHeader, id |-> plan_seq + 1]
               /\ UNCHANGED <<treatments, examination_findings, finding_seq, owned,
                              outsideRecords>>

\* the ownership check that lets every doctor through
ownerCheck_anyDoctor(rows, user) ==
    IF rows = {} THEN 404 ELSE 0

\* the ownership check of the three handlers on the rows of the SELECT of
\* doctor_id: 404 without a row, 403 for a user who is neither admin nor the
\* doctor of the row, 0 to go on
ownerCheck(rows, user) ==
    IF rows = {}
    THEN 404
    ELSE IF user.role # "admin" /\ (CHOOSE r \in rows : TRUE).doctor_id # user.id
         THEN 403
         ELSE 0

\* a request has passed its ownership check and waits for its write
Owns(route, authHeader, id, body) ==
    LET r == [route |-> route, authHeader |-> authHeader, id |-> id, body |-> body]
    IN /\ r \notin owned
       /\ Cardinality(owned) < MaxInFlight
       /\ owned' = owned \cup {r}
       /\ UNCHANGED <<resp, treatments, examination_findings, treatment_plans,
                      finding_seq, plan_seq, outsideRecords>>

\* PUT /api/examinations/:id up to the ownership check
PutExaminationsCheck(authHeader, id, chief_complaint) ==
    LET route == "PUT /api/examinations/:id"
        denied == middleware(authHeader, {"doctor", "admin"})
        rows == {f \in examination_findings : f.finding_id = id}
        owner == ownerCheck(rows, authHeader.user[1])
    IN /\ Idle
       /\ IF denied # 0
          THEN Rejected(route, authHeader, id, denied)
          ELSE IF owner # 0
               THEN Rejected(route, authHeader, id, owner)
               ELSE Owns(route, authHeader, id, chief_complaint)

\* PUT /api/examinations/:id from the UPDATE on
PutExaminationsUpdate(r) ==
    /\ Idle
    /\ r \in owned
    /\ r.route = "PUT /api/examinations/:id"
    /\ examination_findings' =
           {IF f.finding_id = r.id THEN [f EXCEPT !.chief_complaint = r.body] ELSE f :
               f \in examination_findings}
    /\ owned' = owned \ {r}
    /\ resp' = [route |-> r.route, status |-> 200, authHeader |-> r.authHeader,
                id |-> r.id]
    /\ UNCHANGED <<treatments, treatment_plans, finding_seq, plan_seq, outsideRecords>>

\* PUT /api/treatment-plans/:id up to the ownership check
PutTreatmentPlansCheck(authHeader, id, status) ==
    LET route == "PUT /api/treatment-plans/:id"
        denied == middleware(authHeader, {"doctor", "admin"})
        rows == {p \in treatment_plans : p.plan_id = id}
        owner == ownerCheck(rows, authHeader.user[1])
    IN /\ Idle
       /\ IF denied # 0
          THEN Rejected(route, authHeader, id, denied)
          ELSE IF owner # 0
               THEN Rejected(route, authHeader, id, owner)
               ELSE Owns(route, authHeader, id, status)

\* PUT /api/treatment-plans/:id from the UPDATE on: status = COALESCE($1, status)
PutTreatmentPlansUpdate(r) ==
    /\ Idle
    /\ r \in owned
    /\ r.route = "PUT /api/treatment-plans/:id"
    /\ treatment_plans' =
           {IF p.plan_id = r.id /\ r.body # NullText THEN [p EXCEPT !.status = r.body] ELSE p :
               p \in treatment_plans}
    /\ owned' = owned \ {r}
    /\ resp' = [route |-> r.route, status |-> 200, authHeader |-> r.authHeader,
                id |-> r.id]
    /\ UNCHANGED <<treatments, examination_findings, finding_seq, plan_seq,
                   outsideRecords>>

\* DELETE /api/treatment-plans/:id up to the ownership check
DeleteTreatmentPlansCheck(authHeader, id) ==
    LET route == "DELETE /api/treatment-plans/:id"
        denied == middleware(authHeader, {"doctor", "admin"})
        rows == {p \in treatment_plans : p.plan_id = id}
        owner == ownerCheck(rows, authHeader.user[1])
    IN /\ Idle
       /\ IF denied # 0
          THEN Rejected(route, authHeader, id, denied)
          ELSE IF owner # 0
               THEN Rejected(route, authHeader, id, owner)
               ELSE Owns(route, authHeader, id, NullText)

\* DELETE /api/treatment-plans/:id from the DELETE on
DeleteTreatmentPlansDelete(r) ==
    /\ Idle
    /\ r \in owned
    /\ r.route = "DELETE /api/treatment-plans/:id"
    /\ treatment_plans' = {p \in treatment_plans : p.plan_id # r.id}
    /\ owned' = owned \ {r}
    /\ resp' = [route |-> r.route, status |-> 200, authHeader |-> r.authHeader,
                id |-> r.id]
    /\ UNCHANGED <<treatments, examination_findings, finding_seq, plan_seq,
                   outsideRecords>>

\* the requests that can wait for their write
OwnedRequests ==
    [route : {"PUT /api/examinations/:id", "PUT /api/treatment-plans/:id",
              "DELETE /api/treatment-plans/:id"},
     authHeader : AuthHeaders, id : 1..(MaxFindings + MaxPlans),
     body : {NullText, "toothache", "completed"}]

NextRecords ==
    \/ \E authHeader \in AuthHeaders, id \in 1..2 :
          DeleteTreatments(authHeader, id)
    \/ \E authHeader \in AuthHeaders, doctor_id \in DoctorIdInputs :
          PostExaminationFindings(authHeader, doctor_id)
    \/ \E authHeader \in AuthHeaders, doctor_id \in DoctorIdInputs, items \in {NullText, "[]"} :
          PostTreatmentPlans(authHeader, doctor_id, items)
    \/ \E authHeader \in AuthHeaders, id \in 1..(MaxFindings + 1) :
          PutExaminationsCheck(authHeader, id, "toothache")
    \/ \E r \in OwnedRequests : PutExaminationsUpdate(r)
    \/ \E authHeader \in AuthHeaders, id \in 1..(MaxPlans + 1),
          status \in {NullText, "completed"} :
          PutTreatmentPlansCheck(authHeader, id, status)
    \/ \E r \in OwnedRequests : PutTreatmentPlansUpdate(r)
    \/ \E authHeader \in AuthHeaders, id \in 1..(MaxPlans + 1) :
          DeleteTreatmentPlansCheck(authHeader, id)
    \/ \E r \in OwnedRequests : DeleteTreatmentPlansDelete(r)
    \/ ResponseDelivered

SpecRecords == Init /\ [][NextRecords]_vars

\* the roles each modelled route is registered with through checkRole;
\* POST /api/treatment-plans is registered with checkRole('doctor', 'admin')
\* after its first registration, which has only authMiddleware
Registered ==
    [route \in {"DELETE /api/treatments/:id", "PUT /api/examinations/:id",
                "POST /api/treatment-plans",
                "PUT /api/treatment-plans/:id", "DELETE /api/treatment-plans/:id",
                "POST /api/visits/check-in", "POST /api/billing/generate/:visit_id",
                "PUT /api/billing/:id/payment"} |->
        CASE route = "DELETE /api/treatments/:id" -> {"admin"}
          [] route \in {"PUT /api/examinations/:id", "POST /api/treatment-plans",
                        "PUT /api/treatment-plans/:id",
                        "DELETE /api/treatment-plans/:id"} -> {"doctor", "admin"}
          [] OTHER -> {"nurse", "admin"}]

\* the request carries a token that verifies and names a user
Authenticated(authHeader) ==
    authHeader.present /\ authHeader.verifies /\ authHeader.user # <<>>

\* the request carries a valid token whose role is one of the roles
Permitted(authHeader, roles) ==
    Authenticated(authHeader) /\ authHeader.user[1].role \in roles

\* the requests of the role-gated routes whose handler has run and waits for
\* its write
HandlersInFlight == owned \cup generating \cup paying

\* C21: on a route registered with checkRole(r1..rn) a request without an
\* authenticated user is answered 401 and a request of an authenticated user
\* with another role 403, both without a change of any table, sequence or
\* request in flight; so the handler runs, and leaves a request waiting for
\* its write, only for a valid token with one of the roles
C21_RoleGate ==
    [][/\ \A route \in DOMAIN Registered :
              Answers(route) =>
                  /\ ~Authenticated(resp'.authHeader) =>
                         resp'.status = 401 /\ UNCHANGED <<store, outsideIndex>>
                  /\ (/\ Authenticated(resp'.authHeader)
                      /\ ~Permitted(resp'.authHeader, Registered[route])) =>
                         resp'.status = 403 /\ UNCHANGED <<store, outsideIndex>>
       /\ \A r \in HandlersInFlight' :
              Permitted(r.authHeader, Registered[r.route])]_vars

\* the row of a table with the id, as a set
FindingsWithId(id) == {f \in examination_findings : f.finding_id = id}

PlansWithId(id) == {p \in treatment_plans : p.plan_id = id}

\* the requester is admin or the doctor of the row
OwnsRow(authHeader, row) ==
    /\ Authenticated(authHeader)
    /\ \/ authHeader.user[1].role = "admin"
       \/ authHeader.user[1].id = row.doctor_id

\* C22 for one route and the row with one id: a row changes or goes in a step
\* of the route only for admin or the doctor of the row; when the row exists
\* and the requester is a doctor other than its doctor, the answer is 403 and
\* nothing changes; when the ownership SELECT finds no row, the answer is 404;
\* the rows with another id than the request's stay as they are
OwnershipHolds(route, id, rows, rowsAfter) ==
    Answers(route) =>
        IF resp'.id # id
        THEN rowsAfter = rows
        ELSE /\ \A row \in rows :
                    row \notin rowsAfter => OwnsRow(resp'.authHeader, row)
             /\ \A row \in rows :
                    (/\ Permitted(resp'.authHeader, Registered[route])
                     /\ ~OwnsRow(resp'.authHeader, row)) =>
                        resp'.status = 403 /\ UNCHANGED <<store, outsideIndex>>
             /\ (/\ Permitted(resp'.authHeader, Registered[route])
                 /\ rows = {}
                 /\ owned' = owned) => resp'.status = 404
             /\ resp'.status = 404 => rows = {} /\ UNCHANGED <<store, outsideIndex>>

----------------------------------------------------------------------------
(* PATCH /api/appointments/:id, the first of the two handlers registered    *)
(* for the route in src/index.js; it answers every request, so the second   *)
(* never runs.  The handler runs one transaction on a client checked out of *)
(* the pool, and several requests run at once, each on its own client.      *)
(* Under PostgreSQL's READ COMMITTED a statement sees the rows committed    *)
(* before it starts; INSERT ... ON CONFLICT waits for a transaction that    *)
(* has inserted the same key and not finished, and UPDATE waits for a       *)
(* transaction that has updated the same row and not finished.  BEGIN and   *)
(* the statement after it are one step.  The body of a request is cut down  *)
(* to status and purpose, the id to an existing appointment with a patient, *)
(* one without a patient, and no appointment.                               *)

\* how many rows the check-ins may insert into visits
MaxVisits == 2

AppointmentIds == {1, 2, 3}

StatusInputs == {NullText, "Checked-In", "cancelled"}

PurposeInputs == {NullText, "scaling"}

\* String.prototype.toLowerCase on the strings of the model
toLowerCase(str) ==
    CASE str = "Checked-In" -> "checked-in"
      [] str = "Cash" -> "cash"
      [] OTHER -> str

\* status && status.toLowerCase() === 'checked-in'
IsCheckIn(status) == status # NullText /\ toLowerCase(status) = "checked-in"

\* The UPDATE the handler builds.  A field is <<column, n, v>>: the column is
\* set to $n (n = 0: to NOW()), numbered by the length of fields when it was
\* pushed, and its value is values[v].  check_in_time = NOW() takes a place
\* in fields and none in values.
updateFields(status, purpose) ==
    LET statusFields ==
            IF status = NullText
            THEN <<>>
            ELSE <<<<"status", 1, 1>>>> \o
                 (IF IsCheckIn(status) THEN <<<<"check_in_time", 0, 0>>>> ELSE <<>>)
        statusValues == IF status = NullText THEN 0 ELSE 1
    IN IF purpose = NullText
       THEN statusFields
       ELSE statusFields \o <<<<"purpose", Len(statusFields) + 1, statusValues + 1>>>>

\* PostgreSQL accepts the statement when every $n is bound to the value pushed
\* for its column; otherwise a parameter has no type or two types and the
\* statement fails
Accepted(fields) == \A i \in DOMAIN fields : fields[i][2] = fields[i][3]

\* the state the check-in route leaves alone
outsideCheckIn == <<store, client, migrationVars, authVars, recordVars, billingVars>>

\* a transaction of the handler at one of its statements
Transaction(state, authHeader, id, status, purpose, row, visit, failed) ==
    [state |-> state, authHeader |-> authHeader, id |-> id, status |-> status,
     purpose |-> purpose, row |-> row, visit |-> visit, failed |-> failed]

\* the response of the handler
PatchResponse(status, tx) ==
    [route |-> "PATCH /api/appointments/:id", status |-> status,
     authHeader |-> tx.authHeader, id |-> tx.id, checkIn |-> IsCheckIn(tx.status),
     failed |-> tx.failed]

\* authMiddleware, pool.connect(), BEGIN and, for a check-in, the SELECT of
\* the appointment with its two throws; a body without status and purpose is
\* answered 400 after ROLLBACK
PatchBegin(c, authHeader, id, status, purpose) ==
    LET req == authMiddleware(authHeader)
        tx == Transaction("update", authHeader, id, status, purpose, <<>>, <<>>, "none")
    IN /\ Idle
       /\ txs[c].state = "released"
       /\ IF req.status # 0
          THEN /\ resp' = PatchResponse(req.status, tx)
               /\ UNCHANGED <<store, outsideIndex>>
          ELSE IF IsCheckIn(status)
               THEN /\ txs' = [txs EXCEPT ![c] =
                         IF id \notin DOMAIN appointments
                         THEN [tx EXCEPT !.state = "failed", !.failed = "SELECT"]
                         ELSE IF appointments[id].patient_id = NULL
                              THEN [tx EXCEPT !.state = "failed", !.failed = "patient_id"]
                              ELSE [tx EXCEPT !.state = "insert",
                                              !.row = <<appointments[id]>>]]
                    /\ UNCHANGED <<resp, appointments, visits, visit_seq,
                                   visits_schema, outsideCheckIn>>
               ELSE IF updateFields(status, purpose) = <<>>
                    THEN /\ resp' = PatchResponse(400, tx)
                         /\ UNCHANGED <<store, outsideIndex>>
                    ELSE /\ txs' = [txs EXCEPT ![c] = tx]
                         /\ UNCHANGED <<resp, appointments, visits, visit_seq,
                                        visits_schema, outsideCheckIn>>

\* the visit another transaction has inserted for the appointment and not
\* yet committed or rolled back
InsertedBy(c, id) ==
    txs[c].state \in {"update", "commit", "failed"} /\ txs[c].id = id /\ txs[c].visit # <<>>

\* the INSERT without ON CONFLICT, into a table without the unique index
PatchInsert_plain(c) ==
    LET tx == txs[c]
        row == tx.row[1]
    IN /\ tx.state = "insert"
       /\ visit_seq < MaxVisits
       /\ visit_seq' = visit_seq + 1
       /\ txs' = [txs EXCEPT ![c] =
              [tx EXCEPT !.state = "update",
                         !.visit = <<[visit_id |-> visit_seq + 1,
                                      patient_id |-> row.patient_id,
                                      clinic_id |-> row.clinic_id,
                                      doctor_id |-> row.doctor_id,
                                      appointment_id |-> tx.id,
                                      status |-> "waiting"]>>]]
       /\ UNCHANGED <<resp, appointments, visits, visits_schema, outsideCheckIn>>

\* INSERT INTO visits ... ON CONFLICT (appointment_id) DO NOTHING.  Without
\* a unique index on appointment_id the statement fails.  With it, the
\* statement waits while another transaction holds an unfinished insert of
\* the appointment_id, inserts nothing when a committed visit has it, and
\* inserts otherwise; the sequence of visit_id advances in both cases.
PatchInsert(c) ==
    LET tx == txs[c]
        row == tx.row[1]
    IN /\ tx.state = "insert"
       /\ IF visits_schema = Schema001
          THEN /\ txs' = [txs EXCEPT ![c] =
                      [tx EXCEPT !.state = "failed", !.failed = "INSERT"]]
               /\ UNCHANGED visit_seq
          ELSE /\ \A other \in PoolClients \ {c} : ~InsertedBy(other, tx.id)
               /\ visit_seq < MaxVisits
               /\ visit_seq' = visit_seq + 1
               /\ txs' = [txs EXCEPT ![c] =
                      [tx EXCEPT !.state = "update",
                                 !.visit =
                                     IF \E v \in visits : v.appointment_id = tx.id
                                     THEN <<>>
                                     ELSE <<[visit_id |-> visit_seq + 1,
                                             patient_id |-> row.patient_id,
                                             clinic_id |-> row.clinic_id,
                                             doctor_id |-> row.doctor_id,
                                             appointment_id |-> tx.id,
                                             status |-> "waiting"]>>]]
       /\ UNCHANGED <<resp, appointments, visits, visits_schema, outsideCheckIn>>

\* another transaction has updated the appointment and not finished
UpdatedBy(c, id) ==
    txs[c].state = "commit" /\ txs[c].id = id /\ id \in DOMAIN appointments

\* UPDATE appointments SET ... WHERE appointment_id = $n RETURNING *: the
\* statement fails when PostgreSQL does not accept it, waits for the lock of
\* the row, and then holds it
PatchUpdate(c) ==
    LET tx == txs[c]
    IN /\ tx.state = "update"
       /\ IF Accepted(updateFields(tx.status, tx.purpose))
          THEN /\ \A other \in PoolClients \ {c} : ~UpdatedBy(other, tx.id)
               /\ txs' = [txs EXCEPT ![c] = [tx EXCEPT !.state = "commit"]]
          ELSE txs' = [txs EXCEPT ![c] =
                   [tx EXCEPT !.state = "failed", !.failed = "UPDATE"]]
       /\ UNCHANGED <<resp, appointments, visits, visit_seq, visits_schema,
                      outsideCheckIn>>

\* the row the UPDATE of a transaction has written
updated(tx, row) ==
    [row EXCEPT
        !.status = IF tx.status = NullText THEN @ ELSE tx.status,
        !.check_in_time = IF IsCheckIn(tx.status) THEN clock ELSE @,
        !.purpose = IF tx.purpose = NullText THEN @ ELSE tx.purpose]

\* the handler that commits the visit although the transaction has failed
PatchRollback_visitKept(c) ==
    LET tx == txs[c]
    IN /\ Idle
       /\ tx.state = "failed"
       /\ visits' = visits \cup {tx.visit[i] : i \in DOMAIN tx.visit}
       /\ txs' = [txs EXCEPT ![c] = Released]
       /\ resp' = PatchResponse(500, tx)
       /\ UNCHANGED <<appointments, visit_seq, visits_schema, outsideCheckIn>>

\* COMMIT, res.json(rows[0]) and client.release(): the visit and the updated
\* appointment become visible together
PatchCommit(c) ==
    LET tx == txs[c]
    IN /\ Idle
       /\ tx.state = "commit"
       /\ visits' = visits \cup {tx.visit[i] : i \in DOMAIN tx.visit}
       /\ appointments' =
              [a \in DOMAIN appointments |->
                  IF a = tx.id THEN updated(tx, appointments[a]) ELSE appointments[a]]
       /\ txs' = [txs EXCEPT ![c] = Released]
       /\ resp' = PatchResponse(200, tx)
       /\ UNCHANGED <<visit_seq, visits_schema, outsideCheckIn>>

\* the catch block: ROLLBACK, handleError with status 500, client.release()
PatchRollback(c) ==
    LET tx == txs[c]
    IN /\ Idle
       /\ tx.state = "failed"
       /\ txs' = [txs EXCEPT ![c] = Released]
       /\ resp' = PatchResponse(500, tx)
       /\ UNCHANGED <<appointments, visits, visit_seq, visits_schema, outsideCheckIn>>

NextCheckIn ==
    \/ \E c \in PoolClients, authHeader \in {NoHeader, Bearer(User(1, "nurse"))},
          id \in AppointmentIds, status \in StatusInputs, purpose \in PurposeInputs :
          PatchBegin(c, authHeader, id, status, purpose)
    \/ \E c \in PoolClients : PatchInsert(c)
    \/ \E c \in PoolClients : PatchUpdate(c)
    \/ \E c \in PoolClients : PatchCommit(c)
    \/ \E c \in PoolClients : PatchRollback(c)
    \/ ResponseDelivered

\* the database has the visits table of migration 001 or the one with the
\* unique appointment_id
InitCheckIn ==
    /\ doctors_identities = [d \in Doctors |-> "active"]
    /\ doctor_clinic_assignments = Doctors \X Clinics
    /\ doctor_availability = {}
    /\ doctor_availability_rules = {}
    /\ special_schedules = {}
    /\ da_seq = 0
    /\ dr_seq = 0
    /\ ss_seq = 0
    /\ resp = NoResponse
    /\ client = Released
    /\ applied = {}
    /\ runner = NotStarted
    /\ runs = 0
    /\ admins = [a \in Admins |-> "active"]
    /\ user_sessions = {}
    /\ token_seq = 0
    /\ clock = 0
    /\ logins = {}
    /\ deletes = {}
    /\ InitCare
    /\ visits_schema \in {Schema001, AppointmentIdUnique}

SpecCheckIn == InitCheckIn /\ [][NextCheckIn]_vars

\* the visits of an appointment
VisitsOf(a) == {v \in visits : v.appointment_id = a}

\* C23: whatever PATCH /api/appointments/:id requests have run, one after the
\* other or interleaved, visits holds at most one visit of an appointment,
\* and that visit has the status 'waiting' and the patient, clinic and doctor
\* of the appointment
C23_OneVisitPerAppointment ==
    \A a \in AppointmentIds :
        /\ Cardinality(VisitsOf(a)) <= 1
        /\ \A v \in VisitsOf(a) :
               /\ a \in DOMAIN appointments
               /\ v.status = "waiting"
               /\ v.patient_id = appointments[a].patient_id
               /\ v.clinic_id = appointments[a].clinic_id
               /\ v.doctor_id = appointments[a].doctor_id

\* C23: a second check-in of an appointment whose visit is committed has
\* passed its INSERT without inserting and holds its UPDATE
C23_Witness ==
    \E c \in PoolClients :
        /\ txs[c].state = "commit"
        /\ IsCheckIn(txs[c].status)
        /\ txs[c].visit = <<>>
        /\ VisitsOf(txs[c].id) # {}

\* a step that answers a check-in request
CheckInAnswered ==
    Answers("PATCH /api/appointments/:id") /\ resp'.checkIn

\* C24: a check-in is answered 200 with the appointment updated and a visit
\* of it in the table, or with an error and neither table changed; a visit
\* appears only together with the update of its appointment; a check-in of
\* an appointment that does not exist or has no patient, and one whose UPDATE
\* fails, is answered with an error
C24_CheckInAllOrNothing ==
    [][/\ visits' # visits =>
              /\ CheckInAnswered
              /\ resp'.status = 200
              /\ \E v \in visits' \ visits :
                     visits' = visits \cup {v} /\ v.appointment_id = resp'.id
       /\ CheckInAnswered =>
              /\ resp'.status = 200 =>
                     /\ resp'.id \in DOMAIN appointments
                     /\ IsCheckIn(appointments'[resp'.id].status)
                     /\ \E v \in visits' : v.appointment_id = resp'.id
              /\ resp'.status # 200 =>
                     /\ resp'.status \in {401, 500}
                     /\ visits' = visits
                     /\ appointments' = appointments
              /\ (\/ resp'.id \notin DOMAIN appointments
                  \/ resp'.failed = "UPDATE"
                  \/ /\ resp'.id \in DOMAIN appointments
                     /\ appointments[resp'.id].patient_id = NULL) =>
                     resp'.status # 200]_vars

\* C24: a check-in whose INSERT had put a visit into the transaction has been
\* answered 500 because its UPDATE failed, and the appointment has no visit
C24_Witness ==
    /\ resp.route = "PATCH /api/appointments/:id"
    /\ resp.checkIn
    /\ resp.status = 500
    /\ resp.failed = "UPDATE"
    /\ visit_seq > 0
    /\ VisitsOf(resp.id) = {}

----------------------------------------------------------------------------
(* Billing: POST /api/visits/check-in, which creates the visits that are    *)
(* billed, POST /api/billing/generate/:visit_id and                         *)
(* PUT /api/billing/:id/payment.  The handlers send each statement to the   *)
(* pool on its own, without a transaction, and the billing table of         *)
(* migration 001 has an index on visit_id that is not unique.  The two      *)
(* billing handlers run in two steps, their checks and their write, and     *)
(* other requests are served between the two.  An amount is a number of     *)
(* thousandths; the treatments of every visit add up to Subtotal.           *)

\* how many bills are generated
MaxBills == 2

\* SELECT COALESCE(SUM(total_price), 0) FROM visit_treatments WHERE visit_id = $1
Subtotal == 100000

\* 0.01
Cent == 10

PatientIdInputs == {NULL, 1, 9}

DiscountInputs == {0, 25000, 200000}

PaymentMethodInputs == {NullText, "Cash", "cheque"}

PaidAmountInputs == {NULL, -1000, 75000, 100000, 100005, 100010}

validMethods == {"cash", "card", "transfer", "promptpay", "other"}

\* the state the billing routes leave alone
outsideBilling == <<store, client, migrationVars, authVars, recordVars>>

\* POST /api/visits/check-in: a visit of a patient, without doctor and
\* appointment; patient 1 exists
PostVisitsCheckIn(authHeader, patient_id, clinic_id) ==
    LET route == "POST /api/visits/check-in"
        denied == middleware(authHeader, {"nurse", "admin"})
    IN /\ Idle
       /\ IF denied # 0
          THEN Rejected(route, authHeader, NULL, denied)
          ELSE IF patient_id = NULL \/ clinic_id = NULL
               THEN Rejected(route, authHeader, NULL, 400)
               ELSE IF patient_id # 1
                    THEN Rejected(route, authHeader, NULL, 404)
                    ELSE /\ visit_seq < MaxVisits
                         /\ visit_seq' = visit_seq + 1
                         /\ visits' = visits \cup
                                {[visit_id |-> visit_seq + 1, patient_id |-> patient_id,
                                  clinic_id |-> clinic_id, doctor_id |-> NULL,
                                  appointment_id |-> NULL, status |-> "waiting"]}
                         /\ resp' = [route |-> route, status |-> 201,
                                     authHeader |-> authHeader, id |-> visit_seq + 1]
                         /\ UNCHANGED <<appointments, visits_schema, txs, billingVars,
                                        outsideBilling>>

\* the bills of a visit
BillsOf(visit_id) == {b \in billing : b.visit_id = visit_id}

\* POST /api/billing/generate/:visit_id up to the check for an existing bill
GenerateCheck(authHeader, visit_id, discount) ==
    LET route == "POST /api/billing/generate/:visit_id"
        denied == middleware(authHeader, {"nurse", "admin"})
        visitCheck == {v \in visits : v.visit_id = visit_id}
        r == [route |-> route, authHeader |-> authHeader, id |-> visit_id,
              patient_id |-> (CHOOSE v \in visitCheck : TRUE).patient_id,
              discount |-> discount]
    IN /\ Idle
       /\ IF denied # 0
          THEN Rejected(route, authHeader, visit_id, denied)
          ELSE IF visitCheck = {}
               THEN Rejected(route, authHeader, visit_id, 404)
               ELSE IF BillsOf(visit_id) # {}
                    THEN Rejected(route, authHeader, visit_id, 400)
                    ELSE /\ r \notin generating
                         /\ Cardinality(generating) < MaxInFlight
                         /\ generating' = generating \cup {r}
                         /\ UNCHANGED <<resp, billing, billing_seq, paying, checkInVars,
                                        outsideBilling>>

\* POST /api/billing/generate/:visit_id from the total on: 400 for a negative
\* total, else the INSERT of the pending bill
GenerateInsert(r) ==
    LET total == Subtotal - r.discount
    IN /\ Idle
       /\ r \in generating
       /\ generating' = generating \ {r}
       /\ IF total < 0
          THEN /\ resp' = [route |-> r.route, status |-> 400,
                           authHeader |-> r.authHeader, id |-> r.id]
               /\ UNCHANGED <<billing, billing_seq>>
          ELSE /\ billing_seq < MaxBills
               /\ billing_seq' = billing_seq + 1
               /\ billing' = billing \cup
                      {[billing_id |-> billing_seq + 1, visit_id |-> r.id,
                        patient_id |-> r.patient_id, total_amount |-> total,
                        discount |-> r.discount, status |-> "pending",
                        payment_method |-> NullText, paid_amount |-> NULL,
                        payment_date |-> NULL]}
               /\ resp' = [route |-> r.route, status |-> 201,
                           authHeader |-> r.authHeader, id |-> r.id]
       /\ UNCHANGED <<paying, checkInVars, outsideBilling>>

\* Math.abs(amount - totalAmount) > 0.01 on the doubles parseFloat returns.
\* For the amounts of the model a difference of exactly 0.01 comes out above
\* 0.01: 100.01 - 100 is 0.010000000000005116.
exceedsTolerance(amount, totalAmount) ==
    LET difference == IF amount >= totalAmount THEN amount - totalAmount
                      ELSE totalAmount - amount
    IN difference >= Cent

\* PUT /api/billing/:id/payment up to the comparison of the amount with the
\* total of the bill
PaymentCheck(authHeader, id, payment_method, paid_amount) ==
    LET route == "PUT /api/billing/:id/payment"
        denied == middleware(authHeader, {"nurse", "admin"})
        billCheck == {b \in billing : b.billing_id = id}
        bill == CHOOSE b \in billCheck : TRUE
        r == [route |-> route, authHeader |-> authHeader, id |-> id,
              payment_method |-> toLowerCase(payment_method), amount |-> paid_amount]
    IN /\ Idle
       /\ IF denied # 0
          THEN Rejected(route, authHeader, id, denied)
          ELSE IF \/ payment_method = NullText
                  \/ paid_amount = NULL
                  \/ toLowerCase(payment_method) \notin validMethods
                  \/ paid_amount < 0
               THEN Rejected(route, authHeader, id, 400)
               ELSE IF billCheck = {}
                    THEN Rejected(route, authHeader, id, 404)
                    ELSE IF \/ bill.status = "paid"
                            \/ exceedsTolerance(paid_amount, bill.total_amount)
                         THEN Rejected(route, authHeader, id, 400)
                         ELSE /\ r \notin paying
                              /\ Cardinality(paying) < MaxInFlight
                              /\ paying' = paying \cup {r}
                              /\ UNCHANGED <<resp, billing, billing_seq, generating,
                                             checkInVars, outsideBilling>>

\* PUT /api/billing/:id/payment from the UPDATE on: UPDATE billing SET
\* payment_method, paid_amount, payment_date = NOW(), status = 'paid'
\* WHERE billing_id = $3
PaymentUpdate(r) ==
    /\ Idle
    /\ r \in paying
    /\ paying' = paying \ {r}
    /\ billing' =
           {IF b.billing_id = r.id
            THEN [b EXCEPT !.payment_method = r.payment_method,
                           !.paid_amount = r.amount,
                           !.payment_date = clock,
                           !.status = "paid"]
            ELSE b : b \in billing}
    /\ resp' = [route |-> r.route, status |-> 200, authHeader |-> r.authHeader,
                id |-> r.id]
    /\ UNCHANGED <<billing_seq, generating, checkInVars, outsideBilling>>

BillingAuthHeaders == {NoHeader, Bearer(User(1, "doctor")), Bearer(User(1, "nurse"))}

\* the requests that can wait for their INSERT or UPDATE
GeneratingRequests ==
    [route : {"POST /api/billing/generate/:visit_id"}, authHeader : BillingAuthHeaders,
     id : 1..MaxVisits, patient_id : {1}, discount : DiscountInputs]

PayingRequests ==
    [route : {"PUT /api/billing/:id/payment"}, authHeader : BillingAuthHeaders,
     id : 1..MaxBills, payment_method : validMethods, amount : PaidAmountInputs]

NextBilling ==
    \/ \E authHeader \in BillingAuthHeaders, patient_id \in PatientIdInputs :
          PostVisitsCheckIn(authHeader, patient_id, 1)
    \/ \E authHeader \in BillingAuthHeaders, visit_id \in 1..(MaxVisits + 1),
          discount \in DiscountInputs :
          GenerateCheck(authHeader, visit_id, discount)
    \/ \E r \in GeneratingRequests : GenerateInsert(r)
    \/ \E authHeader \in BillingAuthHeaders, id \in 1..(MaxBills + 1),
          payment_method \in PaymentMethodInputs, paid_amount \in PaidAmountInputs :
          PaymentCheck(authHeader, id, payment_method, paid_amount)
    \/ \E r \in PayingRequests : PaymentUpdate(r)
    \/ Tick
    \/ ResponseDelivered

SpecBilling == Init /\ [][NextBilling]_vars

\* C25: after any sequence or interleaving of bill generations the billing
\* table holds at most one bill of a visit, and a generation whose check
\* finds a bill of the visit is answered 400 and changes nothing
C25_OneBillPerVisit ==
    [][/\ \A visit_id \in 1..MaxVisits : Cardinality(BillsOf(visit_id)') <= 1
       /\ \A visit_id \in 1..MaxVisits :
              (/\ Answers("POST /api/billing/generate/:visit_id")
               /\ resp'.id = visit_id
               /\ generating' = generating
               /\ Permitted(resp'.authHeader, {"nurse", "admin"})
               /\ BillsOf(visit_id) # {}) =>
                  resp'.status = 400 /\ UNCHANGED <<store, outsideIndex>>]_vars

\* the bill with the id, as a set
BillsWithId(id) == {b \in billing : b.billing_id = id}

\* C26: a bill becomes 'paid' only in a step of the payment route, when it
\* was not paid before and the paid amount is within 0.01 of its total; a
\* bill that is 'paid' keeps its payment_method, paid_amount and
\* payment_date, and every other column, in every later step
C26_PaidOnceExactTotal ==
    [][\A b \in billing :
          /\ b.status = "paid" => b \in billing'
          /\ b.status # "paid" =>
                 \A after \in BillsWithId(b.billing_id)' :
                     after.status = "paid" =>
                         /\ Answers("PUT /api/billing/:id/payment")
                         /\ after.paid_amount - b.total_amount <= Cent
                         /\ b.total_amount - after.paid_amount <= Cent]_vars

====
